---- MODULE Spec2Model ----
(***************************************************************************)
(* Verification model of the motion-planning core of thrust-ai-in-canvas:  *)
(* the RRT path planner (src/src/rrt.ts), the shortest-line-to-path query  *)
(* (src/src/ddp.ts), the path interpolator (src/src/path-interpolation.ts),*)
(* the PathManager (src/src/path-planning/path-manager.ts) and the part of *)
(* the tick loop that drives them (src/src/core/game-loop.ts,              *)
(* src/unnamed/part_007).                                                  *)
(*                                                                         *)
(* Three specifications share the variables.  SpecRRT calls findPath on a  *)
(* constructed planner.  SpecInterp calls getInterpolatedTarget on given   *)
(* inputs.  SpecGame runs the game: planPath from its callers, the frames  *)
(* of the loop with updateWaypoints, and the planner calls they make.      *)
(* FairSpecRRT and FairSpecGame add the progress of synchronous code and   *)
(* of the browser's callbacks.                                             *)
(*                                                                         *)
(* Numbers.  The program computes in IEEE doubles.  The model computes in  *)
(* fixed point: every coordinate and every distance is an integer count of *)
(* 1/Q pixel, and every operation that rounds in the program (Math.sqrt,   *)
(* division) rounds to the nearest such count here.  Comparisons, sums,    *)
(* differences and products of these values are exact, as they are for     *)
(* doubles of this size.  Infinity is a sentinel above every distance, and *)
(* NaN (0/0 on a zero-length segment) is modelled by the outcome of the    *)
(* comparisons it takes part in: all of them are false.                    *)
(***************************************************************************)
EXTENDS Integers, Sequences, FiniteSets, TLC

VARIABLES
    pc,                   \* position of the running handler
    position,             \* GameState.position of the vehicle
    target,               \* GameConfig.targetPosition, the true target
    waypoints,            \* PathManager.waypoints
    currentWaypointIndex, \* PathManager.currentWaypointIndex
    lookaheadDistance,    \* PathInterpolator.lookaheadDistance
    maxDistanceToPath,    \* PathInterpolator.maxDistanceToPath
    obstacles,            \* RRTPathPlanner.obstacles
    tree,                 \* findPath: the RRT tree, parent is an index, 0 = null
    iter,                 \* findPath: the loop counter i
    rrtStart,             \* findPath: argument start
    rrtGoal,              \* findPath: argument goal
    rrtResult,            \* findPath: the returned path
    planCaller,           \* who invoked the planner
    aim,                  \* result of the last getInterpolatedTarget call
    isPaused,             \* GameLoop.isPaused
    isStepMode,           \* GameLoop.isStepMode
    rafChains,            \* number of live requestAnimationFrame chains
    rendererReady,        \* the renderer has called its ready callback
    startTimer,           \* the 500 ms timer of LunarLanderGame.start
    held,                 \* the array a caller of getWaypoints still holds
    controller,           \* the DDPController: the fields its constructor sets
    lastCosts,            \* DDPController.lastCosts
    gameState,            \* the GameState handed to computeControl
    frame,                \* computeControl: its locals control, bestCost, i,
                          \* testControl, testState, totalCost and t
    randoms,              \* the values Math.random has returned in this call
    calls,                \* number of computeControl calls that have begun
    firstControl,         \* the control the first call returned
    costReport,           \* the last value calculateTotalCost returned
    pairCosts,            \* waypoints costs of two opposite velocities
    shortestLine,         \* the last value getShortestLineToPath returned
    stepPending           \* what has run since step() was called on a paused
                          \* loop: "armed" nothing yet, "done" one update,
                          \* "overrun" more than one; "none" without such a call

loopVars == <<isPaused, isStepMode, rafChains, rendererReady, startTimer,
              stepPending>>

controlVars == <<controller, lastCosts, gameState, frame, randoms, calls,
                 firstControl, costReport, pairCosts, shortestLine>>

vars == <<pc, position, target, waypoints, currentWaypointIndex,
          lookaheadDistance, maxDistanceToPath, obstacles, tree, iter,
          rrtStart, rrtGoal, rrtResult, planCaller, aim, loopVars, held,
          controlVars>>

(***************************************************************************)
(* Bounds of the model                                                     *)
(***************************************************************************)
\* resolution of the fixed-point numbers: Q counts per pixel
Q == 1
\* the longest path handed to simplifyPath on its own
MaxPathLength == 4
\* the model's cap on RRTPathPlanner.maxIterations (1000 in the program)
MaxIterations == 3
\* rounding slack, in units of 1/Q pixel, allowed when two computed lengths
\* are compared
ArcTolerance == 1

(***************************************************************************)
(* Program constants, in pixels                                            *)
(***************************************************************************)
StepSize == 20
GoalThreshold == 30
BoundaryMargin == 20
LanderRadius == 15
DefaultLookahead == 75
DefaultMaxDistanceToPath == 300
Infinity == 1000000000

\* the arena handed to the planner's constructor (canvas size / scale)
Arena == [width |-> 500 * Q, height |-> 500 * Q]

Pt(px, py) == [x |-> px * Q, y |-> py * Q]
Rect(px, py, w, h) == [x |-> px * Q, y |-> py * Q, width |-> w * Q, height |-> h * Q]
NoPoint == [x |-> 0 - Infinity, y |-> 0 - Infinity]
\* no getInterpolatedTarget call has returned yet
NoAim == [threw |-> FALSE, value |-> NoPoint]

(***************************************************************************)
(* Arithmetic                                                              *)
(***************************************************************************)
Abs(a) == IF a < 0 THEN 0 - a ELSE a
Min2(a, b) == IF a < b THEN a ELSE b

\* a / b rounded to the nearest integer, b > 0
RoundDiv(a, b) == (2 * a + b) \div (2 * b)

\* Math.sqrt, rounded to the nearest count: the least r with n <= (r + 1/2)^2
\* found by bisection between lo and hi
RECURSIVE SqrtBetween(_, _, _)
SqrtBetween(n, lo, hi) ==
    IF lo >= hi THEN lo
    ELSE LET mid == (lo + hi) \div 2
         IN  IF n <= mid * mid + mid THEN SqrtBetween(n, lo, mid)
             ELSE SqrtBetween(n, mid + 1, hi)

Sqrt(n) == SqrtBetween(n, 0, 46340)

(***************************************************************************)
(* RRTPathPlanner                                                          *)
(***************************************************************************)
distance(a, b) ==
    LET dx == a.x - b.x
        dy == a.y - b.y
    IN  Sqrt(dx * dx + dy * dy)

lineSegmentsIntersect(a, b, c, d) ==
    LET rx == b.x - a.x
        ry == b.y - a.y
        sx == d.x - c.x
        sy == d.y - c.y
        denominator == rx * sy - ry * sx
        tn == (c.x - a.x) * sy - (c.y - a.y) * sx
        un == (c.x - a.x) * ry - (c.y - a.y) * rx
    IN  IF denominator = 0 THEN FALSE
        ELSE IF denominator > 0
             THEN tn >= 0 /\ tn <= denominator /\ un >= 0 /\ un <= denominator
             ELSE tn <= 0 /\ tn >= denominator /\ un <= 0 /\ un >= denominator

pointInRectangle(point, rect) ==
    /\ point.x >= rect.x
    /\ point.x <= rect.x + rect.width
    /\ point.y >= rect.y
    /\ point.y <= rect.y + rect.height

rectEdges(rect) ==
    << [from |-> [x |-> rect.x, y |-> rect.y],
        to   |-> [x |-> rect.x + rect.width, y |-> rect.y]],
       [from |-> [x |-> rect.x + rect.width, y |-> rect.y],
        to   |-> [x |-> rect.x + rect.width, y |-> rect.y + rect.height]],
       [from |-> [x |-> rect.x + rect.width, y |-> rect.y + rect.height],
        to   |-> [x |-> rect.x, y |-> rect.y + rect.height]],
       [from |-> [x |-> rect.x, y |-> rect.y + rect.height],
        to   |-> [x |-> rect.x, y |-> rect.y]] >>

lineIntersectsRectangle(from, to, rect) ==
    \/ pointInRectangle(from, rect)
    \/ pointInRectangle(to, rect)
    \/ \E e \in 1..4 :
          lineSegmentsIntersect(from, to, rectEdges(rect)[e].from, rectEdges(rect)[e].to)

\* the boundary test of collides: only the segment's end `to` is tested
outsideMargins(to) ==
    \/ to.x < BoundaryMargin * Q
    \/ to.x > Arena.width - BoundaryMargin * Q
    \/ to.y < BoundaryMargin * Q
    \/ to.y > Arena.height - BoundaryMargin * Q

collidesWith(obs, from, to) ==
    \/ \E k \in 1..Len(obs) : lineIntersectsRectangle(from, to, obs[k])
    \/ outsideMargins(to)

steer(from, to, stepSize) ==
    LET dist == distance(from, to)
    IN  IF dist <= stepSize THEN to
        ELSE [x |-> from.x + RoundDiv((to.x - from.x) * stepSize, dist),
              y |-> from.y + RoundDiv((to.y - from.y) * stepSize, dist)]

RECURSIVE nearestScan(_, _, _, _, _)
nearestScan(tr, point, i, nearest, minDistance) ==
    IF i > Len(tr) THEN nearest
    ELSE LET dist == distance(tr[i].position, point)
         IN  IF dist < minDistance
             THEN nearestScan(tr, point, i + 1, i, dist)
             ELSE nearestScan(tr, point, i + 1, nearest, minDistance)

\* index of the nearest node; ties keep the earliest node
findNearestNode(tr, point) ==
    nearestScan(tr, point, 2, 1, distance(tr[1].position, point))

\* a scan that takes the end of the path without the visibility test
furthestUnchecked(obs, path, i, j) == j

\* simplifyPath lines 209-214: the furthest j > i with a free segment
\* from path[i] to path[j], i + 1 when there is none
RECURSIVE furthestVisibleScan(_, _, _, _)
furthestVisibleScan(obs, path, i, j) ==
    IF j <= i THEN i + 1
    ELSE IF ~collidesWith(obs, path[i], path[j]) THEN j
    ELSE furthestVisibleScan(obs, path, i, j - 1)

RECURSIVE simplifyLoop(_, _, _, _)
simplifyLoop(obs, path, i, simplified) ==
    IF i < Len(path)
    THEN LET furthestVisible == furthestVisibleScan(obs, path, i, Len(path))
         IN  simplifyLoop(obs, path, furthestVisible,
                          Append(simplified, path[furthestVisible]))
    ELSE simplified

\* simplifyPath with the visibility test left out: always shortcut to the end
simplifyPathUnchecked(obs, path) ==
    IF Len(path) <= 2 THEN path
    ELSE <<path[1], path[Len(path)]>>

simplifyPath(obs, path) ==
    IF Len(path) <= 2 THEN path
    ELSE simplifyLoop(obs, path, 1, <<path[1]>>)

RECURSIVE unshiftParents(_, _, _)
unshiftParents(tr, node, path) ==
    IF node = 0 THEN path
    ELSE unshiftParents(tr, tr[node].parent, <<tr[node].position>> \o path)

constructPath(obs, tr, goalNode) ==
    simplifyPath(obs, unshiftParents(tr, goalNode, <<>>))

\* goalReached with the step size taken for the goal threshold
goalReachedWithinStep(newPosition, goal) ==
    distance(newPosition, goal) < StepSize * Q

goalReached(newPosition, goal) ==
    distance(newPosition, goal) < GoalThreshold * Q

(***************************************************************************)
(* distanceBetween, getShortestLineToPath                                  *)
(***************************************************************************)
distanceBetween(point1, point2) ==
    LET dx == point2.x - point1.x
        dy == point2.y - point1.y
    IN  Sqrt(dx * dx + dy * dy)

NoSegment == [start |-> NoPoint, end |-> NoPoint]

\* lines 405-435, the loop body for the segment from a to b: t is num / den.
\* On a zero-length segment t is 0/0 = NaN, so are x_s, y_s and dist.
segmentProjection(a, b, p) ==
    LET vx == b.x - a.x
        vy == b.y - a.y
        wx == p.x - a.x
        wy == p.y - a.y
        num == wx * vx + wy * vy
        den == vx * vx + vy * vy
        s == IF den = 0 THEN NoPoint
             ELSE IF num < 0 THEN a
             ELSE IF num > den THEN b
             ELSE [x |-> a.x + RoundDiv(num * vx, den),
                   y |-> a.y + RoundDiv(num * vy, den)]
    IN  [isNaN |-> den = 0,
         point |-> s,
         dist |-> IF den = 0 THEN Infinity
                  ELSE Sqrt((s.x - p.x) * (s.x - p.x) + (s.y - p.y) * (s.y - p.y))]

RECURSIVE shortestLineScan(_, _, _, _)
shortestLineScan(path, p, i, best) ==
    IF i > Len(path) - 1 THEN best
    ELSE LET proj == segmentProjection(path[i], path[i + 1], p)
         IN  IF ~proj.isNaN /\ proj.dist < best.shortestDistance
             THEN shortestLineScan(path, p, i + 1,
                      [shortestDistance |-> proj.dist,
                       crossSectionPoint |-> proj.point,
                       segment |-> [start |-> path[i], end |-> path[i + 1]]])
             ELSE shortestLineScan(path, p, i + 1, best)

getShortestLineToPath(path, p) ==
    shortestLineScan(path, p, 1,
        [shortestDistance |-> Infinity, crossSectionPoint |-> NoPoint,
         segment |-> NoSegment])

(***************************************************************************)
(* PathInterpolator                                                        *)
(***************************************************************************)
getVectorBetweenPoints(point1, point2, currentPoint, length) ==
    LET dvx == point2.x - point1.x
        dvy == point2.y - point1.y
        directionVectorLength == Sqrt(dvx * dvx + dvy * dvy)
    IN  IF directionVectorLength = 0 THEN currentPoint
        ELSE [x |-> currentPoint.x + RoundDiv(dvx * length, directionVectorLength),
              y |-> currentPoint.y + RoundDiv(dvy * length, directionVectorLength)]

\* waypoints[i] of the program, i counted from 0
at(wps, i) == wps[i + 1]

\* waypoints.findIndex(...): the first index (from 0) whose point equals
\* segment.start, -1 when there is none or the segment is null
findIndexOfStart(wps, segment) ==
    IF segment = NoSegment \/ ~\E i \in 0..(Len(wps) - 1) : at(wps, i) = segment.start
    THEN 0 - 1
    ELSE CHOOSE i \in 0..(Len(wps) - 1) :
            /\ at(wps, i) = segment.start
            /\ \A j \in 0..(i - 1) : at(wps, j) # segment.start

\* the lookahead that replaces the coerced one when Math.min is left out
uncoercedLookaheadDistance(lookahead, currentPosition, wps) == lookahead

\* lines 40-47
coercedLookaheadDistance(lookahead, currentPosition, wps) ==
    Min2(lookahead, distanceBetween(currentPosition, wps[Len(wps)]))

Returned(point) == [threw |-> FALSE, value |-> point]
\* distanceBetween(currentPoint, undefined) reads .x of undefined
TypeErrorThrown == [threw |-> TRUE, value |-> NoPoint]

\* lines 72-93, the forward walk along the path
RECURSIVE forwardWalk(_, _, _, _, _, _)
forwardWalk(wps, finalTarget, waypointIndexCandidate, currentPoint, remainingDistance, distanceToNextWaypoint) ==
    IF remainingDistance > 0 /\ waypointIndexCandidate < Len(wps) - 1
    THEN IF remainingDistance > distanceToNextWaypoint
         THEN LET next == waypointIndexCandidate + 1
              IN  IF next + 1 > Len(wps) - 1
                  THEN TypeErrorThrown
                  ELSE forwardWalk(wps, finalTarget, next, at(wps, next),
                           remainingDistance - distanceToNextWaypoint,
                           distanceBetween(at(wps, next), at(wps, next + 1)))
         ELSE Returned(getVectorBetweenPoints(currentPoint,
                           at(wps, waypointIndexCandidate + 1),
                           currentPoint, remainingDistance))
    ELSE Returned(finalTarget)

\* lines 40-104, the waypoint list is not empty
interpolateOnPath(lookahead, currentPosition, wps, finalTarget) ==
    LET coerced == coercedLookaheadDistance(lookahead, currentPosition, wps)
        query == getShortestLineToPath(wps, currentPosition)
        closestPointOnPath == query.crossSectionPoint
        perpendicularDistanceCandidate == query.shortestDistance
        waypointIndexCandidate == findIndexOfStart(wps, query.segment)
    IN  IF /\ closestPointOnPath # NoPoint
           /\ waypointIndexCandidate >= 0
           /\ waypointIndexCandidate < Len(wps) - 1
        THEN IF perpendicularDistanceCandidate < coerced
             THEN forwardWalk(wps, finalTarget, waypointIndexCandidate,
                      closestPointOnPath,
                      coerced - perpendicularDistanceCandidate,
                      distanceBetween(closestPointOnPath,
                                      at(wps, waypointIndexCandidate + 1)))
             ELSE Returned(getVectorBetweenPoints(currentPosition,
                      closestPointOnPath, currentPosition, coerced))
        ELSE Returned(finalTarget)

\* getInterpolatedTarget without its empty-list return: waypoints.at(-1) is
\* undefined and distanceBetween throws
getInterpolatedTargetUnguarded(lookahead, currentPosition, wps, finalTarget) ==
    IF Len(wps) = 0 THEN TypeErrorThrown
    ELSE interpolateOnPath(lookahead, currentPosition, wps, finalTarget)

getInterpolatedTarget(lookahead, currentPosition, wps, finalTarget) ==
    IF Len(wps) = 0 THEN Returned(finalTarget)
    ELSE interpolateOnPath(lookahead, currentPosition, wps, finalTarget)

\* needsReplanning with the threshold itself counted as a deviation
needsReplanningAtThreshold(maxDistance, currentPosition, wps) ==
    getShortestLineToPath(wps, currentPosition).shortestDistance >= maxDistance

\* PathInterpolator.needsReplanning
needsReplanning(maxDistance, currentPosition, wps) ==
    getShortestLineToPath(wps, currentPosition).shortestDistance > maxDistance

\* updateWaypoints without its return on an empty list
replansAlsoWhenEmpty(maxDistance, currentPosition, wps) ==
    needsReplanning(maxDistance, currentPosition, wps)

\* PathManager.updateWaypoints: the condition under which it calls planPath
updateWaypointsReplans(maxDistance, currentPosition, wps) ==
    IF Len(wps) = 0 THEN FALSE
    ELSE needsReplanning(maxDistance, currentPosition, wps)

(***************************************************************************)
(* Inputs of the model                                                     *)
(***************************************************************************)
\* obstacle sets handed to the planner's constructor
ObstacleSets == { <<>>, <<Rect(45, 40, 10, 20)>>,
                  <<Rect(45, 40, 10, 20), Rect(60, 20, 20, 5)>> }
\* start and goal arguments of a direct findPath call
RRTStarts == { Pt(30, 50), Pt(5, 50) }
RRTGoals == { Pt(70, 50), Pt(40, 50), Pt(50, 50) }
\* the values sampleRandomPoint may draw: points inside the arena margins
SamplePoints == { Pt(50, 20), Pt(70, 30), Pt(50, 80), Pt(30, 50), Pt(40, 400),
                  Pt(20, 50) }
\* the same for the planner calls of the running game
GameSamplePoints == { Pt(100, 200) }


(***************************************************************************)
(* RRTPathPlanner.findPath, one action per loop iteration                  *)
(***************************************************************************)
\* lines 26-29: the tree is initialised with the start node
findPathEnter(start, goal, caller) ==
    /\ rrtStart' = start
    /\ rrtGoal' = goal
    /\ tree' = << [position |-> start, parent |-> 0] >>
    /\ iter' = 0
    /\ rrtResult' = <<>>
    /\ planCaller' = caller
    /\ pc' = "findPath"

\* nobody has called getWaypoints yet
NoHeld == [taken |-> FALSE, seen |-> <<>>, now |-> <<>>, stored |-> FALSE]

\* no controller has been constructed
controlOff ==
    /\ controller = "none"
    /\ lastCosts = "none"
    /\ gameState = "none"
    /\ frame = "none"
    /\ randoms = <<>>
    /\ calls = 0
    /\ firstControl = "none"
    /\ costReport = "none"
    /\ pairCosts = "none"
    /\ shortestLine = "none"

\* the tick loop is not running, nobody holds a waypoint array, and there
\* is no controller
loopOff ==
    /\ held = NoHeld
    /\ controlOff
    /\ isPaused = FALSE
    /\ isStepMode = FALSE
    /\ rafChains = 0
    /\ rendererReady = FALSE
    /\ startTimer = "unset"
    /\ stepPending = "none"

\* a direct call of findPath on a constructed planner
CallFindPath ==
    /\ pc = "planner"
    /\ \E s \in RRTStarts, g \in RRTGoals : findPathEnter(s, g, "direct")
    /\ UNCHANGED <<position, target, waypoints, currentWaypointIndex,
                   lookaheadDistance, maxDistanceToPath, obstacles, aim, loopVars,
                   held, controlVars>>

\* a new node that is made a root of its own, with no parent
parentNull(tr, nearestNode) == 0

\* line 45: parent: nearestNode, the node findNearestNode found in the tree
parentOfNewNode(tr, nearestNode) == nearestNode

\* lines 38-55, one iteration of the sampling loop for the sample randomPoint:
\* the tree, the result and the position of the loop after it
findPathStep(obs, tr, goal, randomPoint) ==
    LET nearestNode == findNearestNode(tr, randomPoint)
        newPosition == steer(tr[nearestNode].position, randomPoint, StepSize * Q)
        newTree == Append(tr, [position |-> newPosition,
                               parent |-> parentOfNewNode(tr, nearestNode)])
    IN  IF ~collidesWith(obs, tr[nearestNode].position, newPosition)
        THEN IF goalReached(newPosition, goal)
             THEN [tree |-> newTree, returned |-> TRUE,
                   path |-> constructPath(obs, newTree, Len(newTree))]
             ELSE [tree |-> newTree, returned |-> FALSE, path |-> <<>>]
        ELSE [tree |-> tr, returned |-> FALSE, path |-> <<>>]

\* the values sampleRandomPoint may return in this call of findPath: the goal
\* (goal bias) or a point of the arena
sampleRandomPoint ==
    {rrtGoal} \cup (IF planCaller = "direct" THEN SamplePoints ELSE GameSamplePoints)

\* control part of one loop iteration: the loop runs, the counter advances
findPathProceeds ==
    /\ pc = "findPath"
    /\ iter < MaxIterations
    /\ iter' = iter + 1
    /\ pc' \in {"findPath", "findPathReturned"}

\* one iteration of the sampling loop; iter counts the iterations performed
FindPathIterate ==
    /\ findPathProceeds
    /\ \E randomPoint \in sampleRandomPoint :
       \E step \in {findPathStep(obstacles, tree, rrtGoal, randomPoint)} :
          /\ tree' = step.tree
          /\ rrtResult' = step.path
          /\ pc' = IF step.returned THEN "findPathReturned" ELSE "findPath"
    /\ UNCHANGED <<position, target, waypoints, currentWaypointIndex,
                   lookaheadDistance, maxDistanceToPath, obstacles,
                   rrtStart, rrtGoal, planCaller, aim, loopVars, held,
                   controlVars>>

\* lines 58-60: the budget is used up, the empty path is returned
FindPathExhausted ==
    /\ pc = "findPath"
    /\ iter >= MaxIterations
    /\ rrtResult' = <<>>
    /\ pc' = "findPathReturned"
    /\ UNCHANGED <<position, target, waypoints, currentWaypointIndex,
                   lookaheadDistance, maxDistanceToPath, obstacles, tree, iter,
                   rrtStart, rrtGoal, planCaller, aim, loopVars, held,
                   controlVars>>

InitRRT ==
    /\ pc = "planner"
    /\ obstacles \in ObstacleSets
    /\ position = Pt(0, 0)
    /\ target = Pt(0, 0)
    /\ waypoints = <<>>
    /\ currentWaypointIndex = 0
    /\ lookaheadDistance = DefaultLookahead * Q
    /\ maxDistanceToPath = DefaultMaxDistanceToPath * Q
    /\ tree = <<>>
    /\ iter = 0
    /\ rrtStart = Pt(0, 0)
    /\ rrtGoal = Pt(0, 0)
    /\ rrtResult = <<>>
    /\ planCaller = "none"
    /\ aim = NoAim
    /\ loopOff

NextRRT == CallFindPath \/ FindPathIterate \/ FindPathExhausted

SpecRRT == InitRRT /\ [][NextRRT]_vars

\* findPath is synchronous code: a running loop takes its next iteration and a
\* finished loop returns.  An iteration is possible whenever its control part
\* is (every sample yields a step), so weak fairness of the control part on
\* <<pc, iter>> is weak fairness of FindPathIterate.
FairSpecRRT ==
    /\ SpecRRT
    /\ WF_<<pc, iter>>(findPathProceeds)
    /\ WF_vars(FindPathExhausted)

(***************************************************************************)
(* Claims about the planner                                                *)
(***************************************************************************)
returnedPath == pc = "findPathReturned" /\ rrtResult # <<>>

\* C1: whenever findPath returns a non-empty path, its first point is start,
\* its last point is within goalThreshold of goal, and every consecutive pair
\* of returned waypoints passes the planner's collision test (no obstacle
\* intersected, segment end inside the arena margins).
PlannerPathValid ==
    returnedPath =>
        /\ rrtResult[1] = rrtStart
        /\ distance(rrtResult[Len(rrtResult)], rrtGoal) < GoalThreshold * Q
        /\ \A k \in 1..(Len(rrtResult) - 1) :
              /\ \A o \in 1..Len(obstacles) :
                    ~lineIntersectsRectangle(rrtResult[k], rrtResult[k + 1], obstacles[o])
              /\ ~outsideMargins(rrtResult[k + 1])

\* a path of three waypoints is returned around an obstacle, shorter than the
\* branch of the tree it was cut from
PlannerPathValidWitness ==
    /\ returnedPath
    /\ Len(obstacles) > 0
    /\ Len(rrtResult) = 3
    /\ Len(unshiftParents(tree, Len(tree), <<>>)) > 3

\* the obstacle grown by the vehicle radius on all sides
expandedObstacle(rect, radius) ==
    [x |-> rect.x - radius, y |-> rect.y - radius,
     width |-> rect.width + 2 * radius, height |-> rect.height + 2 * radius]

\* C2: no segment of a path returned by findPath passes closer than the
\* vehicle radius to an obstacle: none intersects an obstacle inflated by the
\* vehicle radius on all sides.
PlannerKeepsClearance ==
    returnedPath =>
        \A k \in 1..(Len(rrtResult) - 1) :
           \A o \in 1..Len(obstacles) :
              ~lineIntersectsRectangle(rrtResult[k], rrtResult[k + 1],
                                       expandedObstacle(obstacles[o], LanderRadius * Q))

\* some node added by the loop lies within goalThreshold of the goal
nodeNearGoal ==
    \E k \in 2..Len(tree) : distance(tree[k].position, rrtGoal) < GoalThreshold * Q

FindPathBudget ==
    /\ iter <= MaxIterations
    /\ pc \in {"findPath", "findPathReturned"} => Len(tree) <= 1 + iter
    /\ pc = "findPath" => ~nodeNearGoal
    /\ pc = "findPathReturned" => (rrtResult = <<>> <=> ~nodeNearGoal)

\* C3: findPath runs at most maxIterations iterations, adds at most one node
\* per iteration, returns the empty path exactly when no added node came
\* within goalThreshold of goal, and always returns.
FindPathTerminates ==
    /\ []FindPathBudget
    /\ (pc = "findPath") ~> (pc = "findPathReturned")

\* the budget is used up with nodes added but none near the goal
FindPathTerminatesWitness ==
    /\ pc = "findPathReturned"
    /\ rrtResult = <<>>
    /\ iter = MaxIterations
    /\ Len(tree) > 1

(***************************************************************************)
(* getInterpolatedTarget as a function of its inputs                       *)
(***************************************************************************)
\* a path that comes back to its first point before it leaves upward
revisitingPath == << Pt(0, 0), Pt(50, 0), Pt(0, 0), Pt(0, 50) >>
InterpPoints == { Pt(0, 0), Pt(50, 0), Pt(150, 0), Pt(150, 150), Pt(10, 10), Pt(0, 50) }
InterpPaths ==
    {<<>>} \cup { <<a>> : a \in InterpPoints }
           \cup { <<a, b>> : a, b \in InterpPoints }
           \cup { <<a, b, c>> : a, b, c \in InterpPoints }
           \cup { revisitingPath }
InterpPositions == { Pt(50, 0), Pt(24, 27), Pt(0 - 1, 0), Pt(0, 0), Pt(0 - 1000, 0),
                     Pt(160, 10), Pt(0 - 6, 0 - 6), Pt(0, 20), Pt(10, 0) }
InterpLookaheads == { 100 * Q, DefaultLookahead * Q }
InterpTargets == { Pt(300, 0) }

InitInterp ==
    /\ pc = "interpolator"
    /\ position \in InterpPositions
    /\ waypoints \in InterpPaths
    /\ target \in InterpTargets
    /\ lookaheadDistance \in InterpLookaheads
    /\ maxDistanceToPath = DefaultMaxDistanceToPath * Q
    /\ currentWaypointIndex = 0
    /\ obstacles = <<>>
    /\ tree = <<>>
    /\ iter = 0
    /\ rrtStart = Pt(0, 0)
    /\ rrtGoal = Pt(0, 0)
    /\ rrtResult = <<>>
    /\ planCaller = "none"
    /\ aim = NoAim
    /\ loopOff

CallGetInterpolatedTarget ==
    /\ pc = "interpolator"
    /\ aim' = getInterpolatedTarget(lookaheadDistance, position, waypoints, target)
    /\ pc' = "interpolated"
    /\ UNCHANGED <<position, target, waypoints, currentWaypointIndex,
                   lookaheadDistance, maxDistanceToPath, obstacles, tree, iter,
                   rrtStart, rrtGoal, rrtResult, planCaller, loopVars, held,
                   controlVars>>

NextInterp == CallGetInterpolatedTarget

SpecInterp == InitInterp /\ [][NextInterp]_vars

interpolated == pc = "interpolated"
\* the shortest-line query of the call, and the lookahead L of the call
interpQuery == getShortestLineToPath(waypoints, position)
interpL == Min2(lookaheadDistance, distanceBetween(position, waypoints[Len(waypoints)]))
straightLine == << Pt(0, 0), Pt(50, 0), Pt(150, 0) >>

\* C4: with an empty waypoint list getInterpolatedTarget returns the final
\* target unchanged, whatever the current position.
EmptyListPassthrough ==
    (interpolated /\ waypoints = <<>>) => aim = [threw |-> FALSE, value |-> target]

EmptyListPassthroughWitness ==
    /\ interpolated
    /\ waypoints = <<>>
    /\ position = Pt(0 - 1000, 0)
    /\ aim.value = target

\* the segment that owns the cross-section point: the earliest segment at the
\* shortest distance from the position
owningSegment ==
    CHOOSE i \in 1..(Len(waypoints) - 1) :
        /\ ~segmentProjection(waypoints[i], waypoints[i + 1], position).isNaN
        /\ segmentProjection(waypoints[i], waypoints[i + 1], position).dist
              = interpQuery.shortestDistance
        /\ \A j \in 1..(i - 1) :
              \/ segmentProjection(waypoints[j], waypoints[j + 1], position).isNaN
              \/ segmentProjection(waypoints[j], waypoints[j + 1], position).dist
                    > interpQuery.shortestDistance

RECURSIVE pathLength(_, _)
\* the length of the polyline from waypoint i to waypoint j
pathLength(i, j) ==
    IF i >= j THEN 0
    ELSE distance(waypoints[i], waypoints[i + 1]) + pathLength(i + 1, j)

\* r lies on segment k of the polyline, at the given arc length forward of
\* the cross-section point
atArcLength(r, k, arc) ==
    LET cross == interpQuery.crossSectionPoint
        a == waypoints[k]
        b == waypoints[k + 1]
    IN  /\ distance(a, r) + distance(r, b) <= distance(a, b) + ArcTolerance
        /\ IF k = owningSegment
           THEN /\ Abs(distance(cross, r) - arc) <= ArcTolerance
                /\ distance(r, b) <= distance(cross, b) + ArcTolerance
           ELSE Abs(distance(cross, waypoints[owningSegment + 1])
                    + pathLength(owningSegment + 1, k) + distance(a, r) - arc)
                   <= ArcTolerance

arcForwardCase ==
    /\ interpolated
    /\ Len(waypoints) >= 2
    /\ interpQuery.shortestDistance < interpL

arcForwardResult ==
    /\ ~aim.threw
    /\ \E k \in owningSegment..(Len(waypoints) - 1) :
          atArcLength(aim.value, k, interpL - interpQuery.shortestDistance)
    /\ (waypoints = straightLine /\ position = Pt(50, 0) /\ lookaheadDistance = 100 * Q)
          => aim.value = Pt(150, 0)

\* C5: for at least 2 waypoints and d < L, getInterpolatedTarget returns the
\* point of the polyline (L - d) of arc length forward of the cross-section
\* point; standing on a waypoint exactly L before the last waypoint it returns
\* exactly the last waypoint.
ArcLengthForward == arcForwardCase => arcForwardResult

\* no point occurs twice in the waypoint list
distinctWaypoints ==
    \A i, j \in 1..Len(waypoints) : i # j => waypoints[i] # waypoints[j]

\* the arc-length result holds for the calls that return, on lists without a
\* repeated point
ArcLengthForwardOnDistinct ==
    (arcForwardCase /\ distinctWaypoints /\ ~aim.threw) => arcForwardResult

ArcLengthForwardOnDistinctWitness ==
    /\ arcForwardCase
    /\ waypoints = straightLine
    /\ position = Pt(24, 27)
    /\ owningSegment = 1
    /\ atArcLength(aim.value, 2, interpL - interpQuery.shortestDistance)

ForwardWalkInBounds == interpolated => ~aim.threw

(***************************************************************************)
(* LunarLanderGame, PathManager and the tick loop.  The controller and the *)
(* dynamics are not modelled: a tick may move the vehicle to any of the    *)
(* positions of GamePositions.  GameLoop.start runs its first update at    *)
(* once; here that update is the first Tick of the chain it starts.        *)
(***************************************************************************)
InitialPosition == Pt(100, 100)
GameTargets == { Pt(150, 100), Pt(400, 400) }
GameObstacleSets == { <<Rect(120, 140, 20, 20)>> }
GamePositions == { Pt(100, 100), Pt(120, 100), Pt(100, 400), Pt(100, 420) }

InitGame ==
    /\ pc = "idle"
    /\ position = InitialPosition
    /\ target \in GameTargets
    /\ obstacles \in GameObstacleSets
    /\ waypoints = <<>>
    /\ currentWaypointIndex = 0
    /\ lookaheadDistance = DefaultLookahead * Q
    /\ maxDistanceToPath = DefaultMaxDistanceToPath * Q
    /\ tree = <<>>
    /\ iter = 0
    /\ rrtStart = Pt(0, 0)
    /\ rrtGoal = Pt(0, 0)
    /\ rrtResult = <<>>
    /\ planCaller = "none"
    /\ aim = NoAim
    /\ loopOff

\* LunarLanderGame.planPath up to the call of findPath
planPathEnter(caller) ==
    /\ findPathEnter(position, target, caller)
    /\ UNCHANGED <<position, target, waypoints, currentWaypointIndex,
                   lookaheadDistance, maxDistanceToPath, obstacles, aim,
                   isPaused, isStepMode, rafChains, stepPending, held,
                   controlVars>>

\* the renderer's ready callback: planPath, then gameLoopManager.start
RendererReady ==
    /\ pc = "idle"
    /\ ~rendererReady
    /\ rendererReady' = TRUE
    /\ planPathEnter("rendererReady")
    /\ UNCHANGED startTimer

\* LunarLanderGame.start: starts the loop and sets the timer
GameStart ==
    /\ pc = "idle"
    /\ startTimer = "unset"
    /\ startTimer' = "pending"
    /\ rafChains' = rafChains + 1
    /\ UNCHANGED <<pc, position, target, waypoints, currentWaypointIndex,
                   lookaheadDistance, maxDistanceToPath, obstacles, tree, iter,
                   rrtStart, rrtGoal, rrtResult, planCaller, aim,
                   isPaused, isStepMode, rendererReady, stepPending, held,
                   controlVars>>

\* the timer of LunarLanderGame.start fires: planPath
StartTimerFires ==
    /\ pc = "idle"
    /\ startTimer = "pending"
    /\ startTimer' = "fired"
    /\ planPathEnter("planPath")
    /\ UNCHANGED rendererReady

\* LunarLanderGame.replanPath, an explicit request
ReplanPath ==
    /\ pc = "idle"
    /\ planPathEnter("planPath")
    /\ UNCHANGED <<rendererReady, startTimer>>

\* LunarLanderGame.reset, an explicit request
Reset ==
    /\ pc = "idle"
    /\ position' = InitialPosition
    /\ findPathEnter(InitialPosition, target, "planPath")
    /\ UNCHANGED <<target, waypoints, currentWaypointIndex, lookaheadDistance,
                   maxDistanceToPath, obstacles, aim, loopVars, held,
                   controlVars>>

\* the locals of findPath and its arguments are gone when it has returned
findPathLeave ==
    /\ tree' = <<>>
    /\ iter' = 0
    /\ rrtStart' = Pt(0, 0)
    /\ rrtGoal' = Pt(0, 0)
    /\ rrtResult' = <<>>
    /\ planCaller' = "none"

\* the in-place alternative: the stored array is emptied and refilled
previousArrayOverwritten(h, path) == IF h.stored THEN path ELSE h.now

\* PathManager.planPath line 73 assigns the field: the array that was stored
\* before is a different object from the path findPath has built, and it
\* keeps its elements
previousArrayAfterPlanPath(h, path) == h.now

\* PathManager.planPath lines 71-77, after findPath has returned, and the
\* rest of the handler that called it
PlanPathFinish ==
    /\ pc = "findPathReturned"
    /\ planCaller # "direct"
    /\ waypoints' = rrtResult
    /\ currentWaypointIndex' = 0
    /\ held' = [held EXCEPT !.now = previousArrayAfterPlanPath(held, rrtResult),
                            !.stored = FALSE]
    /\ pc' = IF planCaller = "updateWaypoints" THEN "physics" ELSE "idle"
    /\ rafChains' = IF planCaller = "rendererReady" THEN rafChains + 1 ELSE rafChains
    /\ findPathLeave
    /\ UNCHANGED <<position, target, lookaheadDistance, maxDistanceToPath,
                   obstacles, aim, isPaused, isStepMode, rendererReady, startTimer,
                   stepPending, controlVars>>

GameLoopTogglePause ==
    /\ pc = "idle"
    /\ isPaused' = ~isPaused
    /\ stepPending' = "none"
    /\ UNCHANGED <<pc, position, target, waypoints, currentWaypointIndex,
                   lookaheadDistance, maxDistanceToPath, obstacles, tree, iter,
                   rrtStart, rrtGoal, rrtResult, planCaller, aim,
                   isStepMode, rafChains, rendererReady, startTimer, held,
                   controlVars>>

GameLoopStep ==
    /\ pc = "idle"
    /\ isStepMode' = TRUE
    /\ isPaused' = FALSE
    /\ stepPending' = IF isPaused THEN "armed" ELSE "none"
    /\ UNCHANGED <<pc, position, target, waypoints, currentWaypointIndex,
                   lookaheadDistance, maxDistanceToPath, obstacles, tree, iter,
                   rrtStart, rrtGoal, rrtResult, planCaller, aim,
                   rafChains, rendererReady, startTimer, held, controlVars>>

\* an update that was not skipped has run
afterUpdate(pending) ==
    IF pending = "armed" THEN "done"
    ELSE IF pending = "done" THEN "overrun"
    ELSE pending

\* control part of a frame whose update is not skipped: the update goes on
\* to the physics, calls the planner from updateWaypoints, or ends the chain
\* with an exception
tickProceeds ==
    /\ pc = "idle"
    /\ rafChains > 0
    /\ ~(isPaused /\ ~isStepMode)
    /\ \/ pc' = "physics" /\ rafChains' = rafChains /\ planCaller' = planCaller
       \/ pc' = "findPath" /\ rafChains' = rafChains /\ planCaller' = "updateWaypoints"
       \/ pc' = "idle" /\ rafChains' = rafChains - 1 /\ planCaller' = planCaller

\* GameLoop.gameLoop, one frame of one chain: update lines 54-63 with
\* LunarLanderGame.updateWaypoints and PathManager.updateWaypoints
Tick ==
    /\ pc = "idle"
    /\ rafChains > 0
    /\ IF isPaused /\ ~isStepMode
       THEN UNCHANGED vars
       ELSE LET a == getInterpolatedTarget(lookaheadDistance, position, waypoints, target)
            IN  /\ tickProceeds
                /\ isStepMode' = FALSE
                /\ stepPending' = afterUpdate(stepPending)
                /\ aim' = a
                /\ IF a.threw
                   THEN /\ pc' = "idle"
                        /\ rafChains' = rafChains - 1
                        /\ UNCHANGED <<tree, iter, rrtStart, rrtGoal, rrtResult, planCaller>>
                   ELSE IF updateWaypointsReplans(maxDistanceToPath, position, waypoints)
                   THEN /\ findPathEnter(position, a.value, "updateWaypoints")
                        /\ UNCHANGED rafChains
                   ELSE /\ pc' = "physics"
                        /\ UNCHANGED <<tree, iter, rrtStart, rrtGoal, rrtResult,
                                       planCaller, rafChains>>
                /\ UNCHANGED <<position, target, waypoints, currentWaypointIndex,
                               lookaheadDistance, maxDistanceToPath, obstacles,
                               isPaused, rendererReady, startTimer, held,
                               controlVars>>

\* GameLoop.update lines 65-79: control, physics, collision
UpdatePhysics ==
    /\ pc = "physics"
    /\ position' \in GamePositions
    /\ aim' = NoAim
    /\ pc' = "idle"
    /\ UNCHANGED <<target, waypoints, currentWaypointIndex, lookaheadDistance,
                   maxDistanceToPath, obstacles, tree, iter, rrtStart, rrtGoal,
                   rrtResult, planCaller, loopVars, held, controlVars>>

NextGame ==
    \/ RendererReady
    \/ GameStart
    \/ StartTimerFires
    \/ ReplanPath
    \/ Reset
    \/ GameLoopTogglePause
    \/ GameLoopStep
    \/ Tick
    \/ FindPathIterate
    \/ FindPathExhausted
    \/ PlanPathFinish
    \/ UpdatePhysics

SpecGame == InitGame /\ [][NextGame]_vars

\* Synchronous code runs on: the planner loop, the rest of planPath and the
\* rest of update.  The browser runs the frame callback of a live chain and
\* fires the pending timer.  The renderer, the page and the user are under no
\* obligation.
FairSpecGame ==
    /\ SpecGame
    /\ WF_<<pc, iter>>(findPathProceeds)
    /\ WF_vars(FindPathExhausted)
    /\ WF_vars(PlanPathFinish)
    /\ WF_vars(UpdatePhysics)
    /\ WF_<<pc, rafChains, planCaller>>(tickProceeds)
    /\ WF_vars(StartTimerFires)

(***************************************************************************)
(* Claims about PathManager and the tick loop                              *)
(***************************************************************************)
\* the shortest distance from p to the segments of wps, Infinity without one
pathDistance(wps, p) ==
    LET ds == { segmentProjection(wps[i], wps[i + 1], p).dist : i \in 1..(Len(wps) - 1) }
    IN  IF ds = {} THEN Infinity
        ELSE CHOOSE d \in ds : \A e \in ds : d <= e

\* a step in which a frame's update runs PathManager.updateWaypoints
runsUpdateWaypoints ==
    /\ pc = "idle"
    /\ \/ pc' = "physics"
       \/ pc' = "findPath" /\ planCaller' = "updateWaypoints"

\* C8: PathManager.updateWaypoints invokes the planner exactly when the
\* stored waypoint list is non-empty and the shortest distance from the
\* current position to the path strictly exceeds maxDistanceToPath; otherwise
\* it leaves the waypoint list and the waypoint index unchanged.
ReplansExactlyOnDeviation ==
    [][runsUpdateWaypoints =>
          /\ (pc' = "findPath") <=>
                (waypoints # <<>> /\ pathDistance(waypoints, position) > maxDistanceToPath)
          /\ pc' = "findPath" => rrtStart' = position
          /\ UNCHANGED <<waypoints, currentWaypointIndex>>]_vars

\* updateWaypoints has just called the planner for a deviation from the path
ReplansExactlyOnDeviationWitness ==
    /\ pc = "findPath"
    /\ planCaller = "updateWaypoints"
    /\ iter = 0
    /\ waypoints # <<>>
    /\ pathDistance(waypoints, position) > maxDistanceToPath

\* findPath has returned the empty path to planPath
planFailed == pc = "findPathReturned" /\ rrtResult = <<>> /\ planCaller # "direct"

\* after a failed plan with the loop running, on some later tick
\* updateWaypoints calls the planner, unless by then a planPath call has
\* started the planner, the loop is paused or no chain is left
RetriedOnLaterTick ==
    (planFailed /\ rafChains > 0) ~>
        \/ pc = "findPath"
        \/ isPaused
        \/ rafChains = 0

\* C9: while the stored waypoint list is empty, updateWaypoints never calls
\* the planner and leaves the list empty on every tick: after a failed plan
\* the planner runs again only for a planPath call (renderer ready, start
\* timer, replanPath, reset).
NoRetryWhileListEmpty ==
    [][(waypoints = <<>> /\ pc = "idle" /\ pc' # "idle") =>
          \/ pc' = "physics" /\ waypoints' = <<>>
          \/ pc' = "findPath" /\ planCaller' \in {"planPath", "rendererReady"}]_vars

\* a frame has run updateWaypoints on the empty list when the renderer-ready
\* plan and the timer's plan are both over
NoRetryWhileListEmptyWitness ==
    /\ pc = "physics"
    /\ waypoints = <<>>
    /\ aim = [threw |-> FALSE, value |-> target]
    /\ rendererReady
    /\ startTimer = "fired"

WaypointIndexes == 0..2

\* PathManager.planPath up to the call of findPath
CallPlanPath ==
    /\ pc = "idle"
    /\ \E currentPosition \in GamePositions, targetPosition \in GameTargets :
          findPathEnter(currentPosition, targetPosition, "planPath")
    /\ UNCHANGED <<position, target, waypoints, currentWaypointIndex,
                   lookaheadDistance, maxDistanceToPath, obstacles, aim,
                   loopVars, held, controlVars>>

\* PathManager.getWaypoints returns the stored array itself, not a copy
GetWaypoints ==
    /\ pc = "idle"
    /\ held' = [taken |-> TRUE, seen |-> waypoints, now |-> waypoints,
                stored |-> TRUE]
    /\ UNCHANGED <<pc, position, target, waypoints, currentWaypointIndex,
                   lookaheadDistance, maxDistanceToPath, obstacles, tree, iter,
                   rrtStart, rrtGoal, rrtResult, planCaller, aim, loopVars,
                   controlVars>>

SetCurrentWaypointIndex ==
    /\ pc = "idle"
    /\ \E index \in WaypointIndexes : currentWaypointIndex' = index
    /\ UNCHANGED <<pc, position, target, waypoints, lookaheadDistance,
                   maxDistanceToPath, obstacles, tree, iter, rrtStart, rrtGoal,
                   rrtResult, planCaller, aim, loopVars, held, controlVars>>

NextPlanPath ==
    \/ CallPlanPath
    \/ FindPathIterate
    \/ FindPathExhausted
    \/ PlanPathFinish
    \/ GetWaypoints
    \/ SetCurrentWaypointIndex

SpecPlanPath == InitGame /\ [][NextPlanPath]_vars

M == 1000

NaN == 0 - Infinity - 1
\* GameState.fuel is optional
undefined == 0 - Infinity - 2

Max2(a, b) == IF a > b THEN a ELSE b
Max3(a, b, c) == Max2(a, Max2(b, c))

\* a length in position counts as a real, and back
real(n) == (n * M) \div Q
counts(r) == RoundDiv(r * Q, M)

\* a * b, the larger factor split to stay within 32 bits
mulSplit(a, b) == (a \div M) * b + RoundDiv((a % M) * b, M)
mulR(a, b) == IF Abs(a) >= Abs(b) THEN mulSplit(a, b) ELSE mulSplit(b, a)

\* a / b, b # 0
divPos(a, b) == (a \div b) * M + RoundDiv((a % b) * M, b)
divR(a, b) == IF b > 0 THEN divPos(a, b) ELSE divPos(0 - a, 0 - b)

\* Math.pow(a, 2), Math.pow(a, 3), Math.pow(a, 4)
pow2(a) == mulR(a, a)
pow3(a) == mulR(pow2(a), a)
pow4(a) == pow2(pow2(a))

\* Math.hypot(x, y) and Math.sqrt(x * x + y * y)
hypot(x, y) == Sqrt(x * x + y * y)

\* a + b of two costs
plus(a, b) ==
    IF a = NaN \/ b = NaN THEN NaN
    ELSE IF a = Infinity \/ b = Infinity THEN Infinity
    ELSE a + b

\* weight * distance, where the distance may be Infinity and the weight is
\* not negative: 0 * Infinity is NaN
timesDistance(weight, d) ==
    IF d = Infinity THEN (IF weight = 0 THEN NaN ELSE Infinity)
    ELSE mulR(weight, d)

\* a < b of two costs: false when either is NaN
less(a, b) == a # NaN /\ b # NaN /\ a < b

Pi == (3142 * M) \div 1000

\* the angle in (-Pi, Pi]
normalizeAngle(a) == Pi - ((Pi - a) % (2 * Pi))

\* Math.sin on [0, Pi], by Bhaskara's formula 16 x (Pi - x) / (5 Pi^2 - 4 x (Pi - x))
sinOnHalfTurn(x) ==
    LET p == x * (Pi - x)
    IN  RoundDiv(16 * p, RoundDiv(5 * Pi * Pi - 4 * p, M))

\* Math.sin and Math.cos
sin(a) ==
    LET x == normalizeAngle(a)
    IN  IF x >= 0 THEN sinOnHalfTurn(x) ELSE 0 - sinOnHalfTurn(0 - x)

cos(a) == sin(a + Pi \div 2)

\* Math.tanh at 0, 1/2, 1, ..., 3, in thousandths, linear in between
tanhTable == <<0, 462, 762, 905, 964, 987, 995>>

tanhOnPositive(x) ==
    LET half == M \div 2
        k == x \div half
    IN  IF k >= 6 THEN (tanhTable[7] * M) \div 1000
        ELSE LET lo == tanhTable[k + 1]
                 hi == tanhTable[k + 2]
             IN  ((lo * half + (hi - lo) * (x % half)) * M) \div (1000 * half)

tanh(x) == IF x >= 0 THEN tanhOnPositive(x) ELSE 0 - tanhOnPositive(0 - x)

(***************************************************************************)
(* DDPController: the cost of a state.  c is the controller, a record of   *)
(* the fields its constructor sets.                                        *)
(***************************************************************************)
positionCost(c, state) ==
    LET dx == state.position.x - c.targetPosition.x
        dy == state.position.y - c.targetPosition.y
        squaredDistance == ((dx * dx + dy * dy) * M) \div (Q * Q)
    IN  mulR(c.positionWeight, squaredDistance)

velocityCost(c, state) ==
    pow2(mulR(state.velocity.x, c.velocityWeight))
        + pow2(mulR(state.velocity.y, c.velocityWeight))

angularVelocityCost(c, state) ==
    pow2(mulR(state.angularVelocity, c.angularVelocityWeight))

\* the loop body of obstacleAvoidanceCost for one obstacle
obstaclePenalty(c, pos, obstacle) ==
    LET dx == Max3(obstacle.x - pos.x, 0,
                   pos.x - (obstacle.x + obstacle.width))
        dy == Max3(obstacle.y - pos.y, 0,
                   pos.y - (obstacle.y + obstacle.height))
        dist == Sqrt(dx * dx + dy * dy)
    IN  IF dist < c.obstacleMargin
        THEN mulR(c.obstacleWeight, pow2(real(c.obstacleMargin - dist)))
        ELSE 0

RECURSIVE obstacleAvoidanceScan(_, _, _)
obstacleAvoidanceScan(c, pos, k) ==
    IF k > Len(c.obstacles) THEN 0
    ELSE obstaclePenalty(c, pos, c.obstacles[k])
             + obstacleAvoidanceScan(c, pos, k + 1)

obstacleAvoidanceCost(c, pos) == obstacleAvoidanceScan(c, pos, 1)

\* one of the four tests of boundaryAvoidanceCost
boundaryPenalty(c, dist) ==
    IF dist < c.boundaryMargin
    THEN mulR(c.boundaryWeight, pow2(real(c.boundaryMargin - dist)))
    ELSE 0

boundaryAvoidanceCost(c, pos) ==
    boundaryPenalty(c, pos.x)
        + boundaryPenalty(c, c.canvasWidth - pos.x)
        + boundaryPenalty(c, pos.y)
        + boundaryPenalty(c, c.canvasHeight - pos.y)

\* lines 426-463 for one edge: the time to the point where the line through
\* position along (vx, vy) meets the edge, Infinity when the edge is skipped
timeToCollision(pos, vx, vy, speed, edge) ==
    LET x1 == edge.from.x - pos.x
        y1 == edge.from.y - pos.y
        x2 == edge.to.x - pos.x
        y2 == edge.to.y - pos.y
        cross1 == x1 * vy - y1 * vx
        cross2 == x2 * vy - y2 * vx
        dx == x2 - x1
        dy == y2 - y1
        den == dy * vx - dx * vy
    IN  IF ~((cross1 <= 0 /\ cross2 >= 0) \/ (cross1 >= 0 /\ cross2 <= 0))
        THEN Infinity
        ELSE IF den = 0 THEN Infinity
        ELSE LET t == divR(cross1, den)
             IN  IF t < 0 \/ t > M THEN Infinity
                 ELSE LET ix == edge.from.x + RoundDiv(t * dx, M)
                          iy == edge.from.y + RoundDiv(t * dy, M)
                          dist == real(hypot(ix - pos.x, iy - pos.y))
                      IN  divR(dist, speed)

RECURSIVE minTimeScan(_, _, _, _, _, _, _)
minTimeScan(pos, vx, vy, speed, edges, k, minTimeToCollision) ==
    IF k > Len(edges) THEN minTimeToCollision
    ELSE LET time == timeToCollision(pos, vx, vy, speed, edges[k])
         IN  minTimeScan(pos, vx, vy, speed, edges, k + 1,
                 IF time < minTimeToCollision /\ time > 0 THEN time
                 ELSE minTimeToCollision)

\* the loop body of collisionCourseCost for one obstacle
collisionPenalty(c, state, speed, obstacle) ==
    LET expanded == expandedObstacle(obstacle, c.shipRadius)
        vx == divR(state.velocity.x, speed)
        vy == divR(state.velocity.y, speed)
        minTimeToCollision ==
            minTimeScan(state.position, vx, vy, speed, rectEdges(expanded), 1,
                        Infinity)
    IN  IF minTimeToCollision < c.collisionTimeHorizon
        THEN LET distanceToCollision == mulR(minTimeToCollision, speed)
                 effectiveMargin ==
                     Max2(real(c.shipRadius) * 10,
                          mulR(c.collisionTimeHorizon, speed) \div 2)
                 collisionDistanceFactor ==
                     Min2(effectiveMargin,
                          Max2(0, effectiveMargin - distanceToCollision))
             IN  mulR(c.collisionCourseWeight, pow2(collisionDistanceFactor))
        ELSE 0

RECURSIVE collisionCourseScan(_, _, _, _)
collisionCourseScan(c, state, speed, k) ==
    IF k > Len(c.obstacles) THEN 0
    ELSE collisionPenalty(c, state, speed, c.obstacles[k])
             + collisionCourseScan(c, state, speed, k + 1)

collisionCourseCost(c, state) ==
    IF Len(c.obstacles) = 0 THEN 0
    ELSE LET speed == hypot(state.velocity.x, state.velocity.y)
         IN  IF speed < M \div 10 THEN 0
             ELSE collisionCourseScan(c, state, speed, 1)

(***************************************************************************)
(* getWaypointsFollowingCost                                               *)
(***************************************************************************)
\* lines 49-180: the velocity part, when velocityMagnitude > 0.001 and the
\* segment is not too short
waypointsVelocityCost(q, shortestDistance, pos, velocity, velocityMagnitude, segmentLength, waypointsVelocityWeight) ==
    LET velocityNorm == [x |-> divR(velocity.x, velocityMagnitude),
                         y |-> divR(velocity.y, velocityMagnitude)]
        segmentVector == [x |-> real(q.segment.end.x - q.segment.start.x),
                          y |-> real(q.segment.end.y - q.segment.start.y)]
        segmentNorm == [x |-> divR(segmentVector.x, segmentLength),
                        y |-> divR(segmentVector.y, segmentLength)]
        alignmentDot == mulR(velocityNorm.x, segmentNorm.x)
                            + mulR(velocityNorm.y, segmentNorm.y)
        expectedVelocity == segmentLength
        expectedVelocityVector == [x |-> mulR(segmentNorm.x, expectedVelocity),
                                   y |-> mulR(segmentNorm.y, expectedVelocity)]
        velocityDiff == [x |-> velocity.x - expectedVelocityVector.x,
                         y |-> velocity.y - expectedVelocityVector.y]
        velocityDeviation == pow2(velocityDiff.x) + pow2(velocityDiff.y)
        alignmentScaling == pow4(M - Max2(0, alignmentDot))
                                + pow2(Max2(0, 0 - alignmentDot))
        scaledDeviation == mulR(velocityDeviation, (5 * M) \div 1000)
                               + mulR(alignmentScaling, 500 * M)
        onPath == mulR(waypointsVelocityWeight, scaledDeviation)
    IN  IF shortestDistance > M \div 1000
        THEN LET toPathVector == [x |-> real(q.crossSectionPoint.x - pos.x),
                                  y |-> real(q.crossSectionPoint.y - pos.y)]
                 toPathDistance ==
                     real(hypot(q.crossSectionPoint.x - pos.x,
                                q.crossSectionPoint.y - pos.y))
                 toPathNorm == [x |-> divR(toPathVector.x, toPathDistance),
                                y |-> divR(toPathVector.y, toPathDistance)]
                 pathAlignmentDot == mulR(velocityNorm.x, toPathNorm.x)
                                         + mulR(velocityNorm.y, toPathNorm.y)
                 distanceScaleFactor == Min2(M, divR(shortestDistance, 100 * M))
                 alignmentFactor == mulR(pow3(pathAlignmentDot), velocityMagnitude)
                 continuousMultiplier ==
                     mulR(300 * M, tanh(3 * pathAlignmentDot)) + 350 * M
                 pathEffect == mulR(alignmentFactor, continuousMultiplier)
             IN  onPath - mulR(mulR(waypointsVelocityWeight, pathEffect),
                               distanceScaleFactor)
        ELSE onPath

\* the two parts of the value returned: the distance cost and the velocity
\* cost.  The catch block is not modelled: nothing in the try block throws.
waypointsCostParts(wps, pos, velocity, waypointsDistanceWeight, waypointsVelocityWeight) ==
    IF Len(wps) < 2 THEN [distance |-> 0, velocity |-> 0]
    ELSE LET q == getShortestLineToPath(wps, pos)
             shortestDistance == IF q.shortestDistance = Infinity THEN Infinity
                                 ELSE real(q.shortestDistance)
             distanceCost == timesDistance(waypointsDistanceWeight, shortestDistance)
             velocityMagnitude == hypot(velocity.x, velocity.y)
         IN  IF q.crossSectionPoint = NoPoint \/ q.segment = NoSegment
             THEN [distance |-> distanceCost, velocity |-> 0]
             ELSE IF velocityMagnitude > M \div 1000
             THEN LET segmentLength == real(distance(q.segment.start, q.segment.end))
                  IN  IF segmentLength < M \div 1000
                      THEN [distance |-> distanceCost, velocity |-> 0]
                      ELSE [distance |-> distanceCost,
                            velocity |-> waypointsVelocityCost(q, shortestDistance,
                                pos, velocity, velocityMagnitude, segmentLength,
                                waypointsVelocityWeight)]
             ELSE [distance |-> distanceCost, velocity |-> 0]

getWaypointsFollowingCost(wps, pos, velocity, waypointsDistanceWeight, waypointsVelocityWeight) ==
    LET parts == waypointsCostParts(wps, pos, velocity, waypointsDistanceWeight, waypointsVelocityWeight)
    IN  plus(parts.distance, parts.velocity)

\* DDPController.waypointsCost
waypointsCost(c, pos, velocity) ==
    getWaypointsFollowingCost(c.waypoints, pos, velocity,
        c.waypointsDistanceWeight, c.waypointsVelocityWeight)

(***************************************************************************)
(* The sum of the components, in DDPController.cost and in                 *)
(* calculateTotalCost                                                      *)
(***************************************************************************)
\* a sum that leaves the waypoints cost out
sumWithoutWaypoints(p, v, a, o, b, cc, w) ==
    plus(plus(plus(plus(plus(p, v), a), o), b), cc)

sumOfComponents(p, v, a, o, b, cc, w) ==
    plus(plus(plus(plus(plus(plus(p, v), a), o), b), cc), w)

costComponents(p, v, a, o, b, cc, w) ==
    [position |-> p, velocity |-> v, angularVelocity |-> a, obstacle |-> o,
     boundary |-> b, collisionCourse |-> cc, waypoints |-> w,
     total |-> sumOfComponents(p, v, a, o, b, cc, w)]

\* DDPController.cost: the record it stores in lastCosts; it returns the
\* total of that record
cost(c, state) ==
    costComponents(positionCost(c, state), velocityCost(c, state),
        angularVelocityCost(c, state),
        obstacleAvoidanceCost(c, state.position),
        boundaryAvoidanceCost(c, state.position),
        collisionCourseCost(c, state),
        waypointsCost(c, state.position, state.velocity))

\* calculateTotalCost: the component functions it calls compute what the
\* methods of DDPController compute; weights is the record of its last
\* argument, which has the fields of the controller
calculateTotalCost(state, targetPosition, obstacleList, canvasWidth, canvasHeight, wps, weights) ==
    LET c == [weights EXCEPT !.targetPosition = targetPosition,
                             !.obstacles = obstacleList,
                             !.canvasWidth = canvasWidth,
                             !.canvasHeight = canvasHeight,
                             !.waypoints = wps]
    IN  cost(c, state)

\* the lastCosts of a new controller
NoCosts == costComponents(0, 0, 0, 0, 0, 0, 0)

(***************************************************************************)
(* DDPController.computeControl, DDPController.dynamics and                *)
(* GameLoop.updatePhysics                                                  *)
(***************************************************************************)
\* DDPController.iterations, 30 in the program
iterations == 2
\* DDPController.horizon, 60 in the program
horizon == 2

\* DDPController.dt and GameLoop.dt, 0.016
dt == (16 * M) \div 1000

ZeroControl == [thrust |-> 0, torque |-> 0]

dynamics(c, state, u) ==
    LET cosAngle == cos(state.angle)
        sinAngle == sin(state.angle)
        newAngle == normalizeAngle(state.angle + mulR(state.angularVelocity, dt))
    IN  [position |->
             [x |-> state.position.x + counts(mulR(state.velocity.x, dt)),
              y |-> state.position.y + counts(mulR(state.velocity.y, dt))],
         velocity |->
             [x |-> state.velocity.x + mulR(mulR(u.thrust, sinAngle), dt),
              y |-> state.velocity.y
                        + mulR(mulR(0 - u.thrust, cosAngle) + c.gravity, dt)],
         angle |-> newAngle,
         angularVelocity |-> state.angularVelocity + mulR(u.torque, dt),
         thrust |-> u.thrust,
         fuel |-> IF state.fuel # undefined
                  THEN state.fuel - mulR(u.thrust, dt)
                  ELSE 1000 * M]

\* GameLoop.updatePhysics lines 89-101
clampVelocity(v) == Max2(0 - 1000 * M, Min2(1000 * M, v))

\* GameLoop.updatePhysics: the state it leaves; gravity is getGravity().y
updatePhysics(state, u, gravity) ==
    LET cosAngle == cos(state.angle)
        sinAngle == sin(state.angle)
        vx == clampVelocity(state.velocity.x)
        vy == clampVelocity(state.velocity.y)
        angularVelocity == clampVelocity(state.angularVelocity)
    IN  [position |-> [x |-> state.position.x + counts(mulR(vx, dt)),
                       y |-> state.position.y + counts(mulR(vy, dt))],
         velocity |-> [x |-> vx + mulR(mulR(u.thrust, sinAngle), dt),
                       y |-> vy + mulR(mulR(0 - u.thrust, cosAngle) + gravity, dt)],
         angle |-> normalizeAngle(state.angle + mulR(angularVelocity, dt)),
         angularVelocity |-> angularVelocity + mulR(u.torque, dt),
         thrust |-> u.thrust,
         fuel |-> IF state.fuel # undefined
                  THEN Max2(0, state.fuel - mulR(u.thrust, dt))
                  ELSE undefined]

\* line 630: Math.random() * thrustMax
testThrust(c, r) == mulR(r, c.thrustMax)

\* a torque drawn without the shift to [-1, 1)
testTorqueUnshifted(c, r) == mulR(r * 2, c.torqueMax)

\* line 631: (Math.random() * 2 - 1) * torqueMax
testTorque(c, r) == mulR(r * 2 - M, c.torqueMax)

\* a search that starts from the total of the last cost evaluation
bestCostFromLastCosts(costs) == costs.total

\* line 626: let bestCost = Infinity; lastCosts is not read
initialBestCost(costs) == Infinity

\* values Math.random returns, in [0, 1)
Randoms == {0, M \div 2, M - 1}

\* the controller of the game: main.ts and GameConfigManager
GameController ==
    [gravity |-> M \div 10, thrustMax |-> 20 * M, torqueMax |-> 10 * M,
     targetPosition |-> Pt(300, 300), obstacles |-> <<Rect(100, 40, 20, 20)>>,
     canvasWidth |-> Arena.width, canvasHeight |-> Arena.height,
     velocityWeight |-> M, angularVelocityWeight |-> M \div 10,
     positionWeight |-> 0, boundaryWeight |-> 9 * M, boundaryMargin |-> 50 * Q,
     obstacleWeight |-> 0, obstacleMargin |-> 0,
     collisionCourseWeight |-> 25 * M, collisionTimeHorizon |-> 5 * M,
     shipRadius |-> LanderRadius * Q,
     waypointsDistanceWeight |-> M, waypointsVelocityWeight |-> M,
     waypoints |-> <<>>]

ControlWaypoints ==
    {<<>>, <<Pt(100, 100), Pt(300, 100)>>, <<Pt(100, 100), Pt(100, 100)>>}

Controllers == {[GameController EXCEPT !.waypoints = wps] : wps \in ControlWaypoints}

VehicleState(pos, vx, vy, angle, fuel) ==
    [position |-> pos, velocity |-> [x |-> vx, y |-> vy], angle |-> angle,
     angularVelocity |-> 0, thrust |-> 0, fuel |-> fuel]

ControlStates ==
    {VehicleState(Pt(100, 150), 0, 0, 0, 1000 * M),
     VehicleState(Pt(100, 150), 0, 5 * M, 0, M \div 10),
     VehicleState(Pt(200, 120), 0 - 2 * M, 0, Pi \div 2, 0),
     VehicleState(Pt(200, 120), 32 * M, 0, 0, undefined)}

\* there is a controller only: no game, planner or loop
gameOff ==
    /\ position = Pt(0, 0)
    /\ target = Pt(0, 0)
    /\ waypoints = <<>>
    /\ currentWaypointIndex = 0
    /\ lookaheadDistance = DefaultLookahead * Q
    /\ maxDistanceToPath = DefaultMaxDistanceToPath * Q
    /\ obstacles = <<>>
    /\ tree = <<>>
    /\ iter = 0
    /\ rrtStart = Pt(0, 0)
    /\ rrtGoal = Pt(0, 0)
    /\ rrtResult = <<>>
    /\ planCaller = "none"
    /\ aim = NoAim
    /\ held = NoHeld
    /\ isPaused = FALSE
    /\ isStepMode = FALSE
    /\ rafChains = 0
    /\ rendererReady = FALSE
    /\ startTimer = "unset"
    /\ stepPending = "none"
    /\ shortestLine = "none"

InitControl ==
    /\ pc = "control"
    /\ controller \in Controllers
    /\ gameState \in ControlStates
    /\ lastCosts = NoCosts
    /\ frame = "none"
    /\ randoms = <<>>
    /\ calls = 0
    /\ firstControl = "none"
    /\ costReport = "none"
    /\ pairCosts = "none"
    /\ gameOff

\* everything outside the controller
gameVars == <<position, target, waypoints, currentWaypointIndex,
              lookaheadDistance, maxDistanceToPath, obstacles, tree, iter,
              rrtStart, rrtGoal, rrtResult, planCaller, aim, loopVars, held,
              shortestLine>>

\* lines 625-626
computeControlEnter ==
    /\ frame' = [control |-> ZeroControl, bestCost |-> initialBestCost(lastCosts),
                 i |-> 0, testControl |-> ZeroControl, testState |-> gameState,
                 totalCost |-> 0, t |-> 0]
    /\ pc' = "shoot"
    /\ UNCHANGED <<controller, lastCosts, gameState, costReport, pairCosts, gameVars>>

\* a call of computeControl
CallComputeControl ==
    /\ pc = "control"
    /\ calls = 0
    /\ calls' = 1
    /\ randoms' = <<>>
    /\ UNCHANGED firstControl
    /\ computeControlEnter

\* a second call with the same state and controller, for which Math.random
\* returns the values it returned in the first call
CallComputeControlAgain ==
    /\ pc = "controlReturned"
    /\ calls = 1
    /\ calls' = 2
    /\ firstControl' = frame.control
    /\ UNCHANGED randoms
    /\ computeControlEnter

\* lines 629-636: the head of the loop over the candidates
SampleCandidate ==
    /\ pc = "shoot"
    /\ frame.i < iterations
    /\ \E r1 \in Randoms, r2 \in Randoms :
          /\ calls = 2 => r1 = randoms[2 * frame.i + 1] /\ r2 = randoms[2 * frame.i + 2]
          /\ randoms' = IF calls = 2 THEN randoms
                        ELSE Append(Append(randoms, r1), r2)
          /\ frame' = [frame EXCEPT
                          !.testControl = [thrust |-> testThrust(controller, r1),
                                           torque |-> testTorque(controller, r2)],
                          !.testState = gameState,
                          !.totalCost = 0,
                          !.t = 0]
    /\ pc' = "rollout"
    /\ UNCHANGED <<controller, lastCosts, gameState, calls, firstControl,
                   costReport, pairCosts, gameVars>>

\* a dynamics that updates the state it is given in place, as
\* GameLoop.updatePhysics does: the position and velocity objects of the
\* shallow copy are those of currentState until a step replaces them
stateUpdatedInPlace(currentState, next, shared) ==
    IF shared
    THEN [currentState EXCEPT !.position = next.position, !.velocity = next.velocity]
    ELSE currentState

\* currentState after a step of the forward simulation. Line 633 copies it
\* with { ...currentState }, which shares its position and velocity objects
\* (shared: no step has replaced them yet); dynamics (lines 661-681) builds
\* the state it returns from new objects and assigns to none of its argument
stateAfterDynamics(currentState, next, shared) == currentState

\* lines 639-642: one step of the forward simulation
RolloutStep ==
    /\ pc = "rollout"
    /\ frame.t < horizon
    /\ LET next == dynamics(controller, frame.testState, frame.testControl)
           costs == cost(controller, next)
       IN  /\ lastCosts' = costs
           /\ gameState' = stateAfterDynamics(gameState, next, frame.t = 0)
           /\ frame' = [frame EXCEPT !.testState = next,
                                     !.totalCost = plus(frame.totalCost, costs.total),
                                     !.t = frame.t + 1]
    /\ UNCHANGED <<pc, controller, randoms, calls, firstControl,
                   costReport, pairCosts, gameVars>>

\* lines 644-647
CandidateDone ==
    /\ pc = "rollout"
    /\ frame.t >= horizon
    /\ frame' = IF less(frame.totalCost, frame.bestCost)
                THEN [frame EXCEPT !.bestCost = frame.totalCost,
                                   !.control = frame.testControl,
                                   !.i = frame.i + 1]
                ELSE [frame EXCEPT !.i = frame.i + 1]
    /\ pc' = "shoot"
    /\ UNCHANGED <<controller, lastCosts, gameState, randoms, calls,
                   firstControl, costReport, pairCosts, gameVars>>

\* line 650
ComputeControlReturn ==
    /\ pc = "shoot"
    /\ frame.i >= iterations
    /\ pc' = "controlReturned"
    /\ UNCHANGED <<controller, lastCosts, gameState, frame, randoms, calls,
                   firstControl, costReport, pairCosts, gameVars>>

\* GameLoop.update line 70: updatePhysics with the control returned
TickPhysics ==
    /\ pc = "controlReturned"
    /\ gameState' = updatePhysics(gameState, frame.control, controller.gravity)
    /\ pc' = "ticked"
    /\ UNCHANGED <<controller, lastCosts, frame, randoms, calls, firstControl,
                   costReport, pairCosts, gameVars>>

NextControl ==
    \/ CallComputeControl
    \/ CallComputeControlAgain
    \/ SampleCandidate
    \/ RolloutStep
    \/ CandidateDone
    \/ ComputeControlReturn
    \/ TickPhysics

SpecControl == InitControl /\ [][NextControl]_vars

(***************************************************************************)
(* Claims about computeControl                                             *)
(***************************************************************************)
\* computeControl has returned frame.control
controlReturned == pc = "controlReturned"

\* C12: every control computeControl returns has 0 <= thrust <= thrustMax
\* and -torqueMax <= torque <= torqueMax.
ControlWithinLimits ==
    controlReturned =>
        /\ 0 <= frame.control.thrust
        /\ frame.control.thrust <= controller.thrustMax
        /\ 0 - controller.torqueMax <= frame.control.torque
        /\ frame.control.torque <= controller.torqueMax

ControlWithinLimitsWitness ==
    /\ controlReturned
    /\ frame.control.thrust > 0
    /\ frame.control.torque > 0
    /\ frame.control.torque > controller.torqueMax - controller.torqueMax \div 100

\* the k-th candidate of the call, from the values Math.random returned
candidate(k) ==
    [thrust |-> testThrust(controller, randoms[2 * k - 1]),
     torque |-> testTorque(controller, randoms[2 * k])]

\* the state after n steps of dynamics under the constant control u
RECURSIVE simulate(_, _, _, _)
simulate(c, state, u, n) ==
    IF n = 0 THEN state ELSE simulate(c, dynamics(c, state, u), u, n - 1)

\* the sum of the costs of the first n simulated states under u
RECURSIVE rolloutCost(_, _, _, _)
rolloutCost(c, state, u, n) ==
    IF n = 0 THEN 0
    ELSE plus(rolloutCost(c, state, u, n - 1), cost(c, simulate(c, state, u, n)).total)

candidateCosts ==
    [k \in 1..iterations |-> rolloutCost(controller, gameState, candidate(k), horizon)]

\* candidate k has the least cost, and is the earliest of those that have
earliestMinimal(costs, k) ==
    \A j \in 1..iterations :
        /\ j < k => costs[k] < costs[j]
        /\ j > k => costs[k] <= costs[j]

\* C13: with iterations >= 1, computeControl returns the sampled candidate
\* whose summed rollout cost is minimal, the earliest sampled on ties; the
\* zero control is returned only when no candidate was evaluated.
ReturnsMinimalCandidate ==
    controlReturned =>
        \E k \in 1..iterations :
            /\ earliestMinimal(candidateCosts, k)
            /\ frame.control = candidate(k)

\* the same for the calls in which some candidate has a cost below Infinity
ReturnsMinimalCandidateIfFinite ==
    (controlReturned /\ \E k \in 1..iterations : candidateCosts[k] < Infinity) =>
        \E k \in 1..iterations :
            /\ earliestMinimal(candidateCosts, k)
            /\ frame.control = candidate(k)

\* C14: after computeControl has returned, getLastCosts reports the cost
\* components of the final simulated tick of the rollout of the control that
\* was returned.
LastCostsOfWinner ==
    controlReturned =>
        lastCosts = cost(controller, simulate(controller, gameState, frame.control, horizon))

\* what the code leaves in lastCosts: the final tick of the last candidate
LastCostsOfLastCandidate ==
    controlReturned =>
        lastCosts = cost(controller, simulate(controller, gameState, candidate(iterations), horizon))

\* C15: a second computeControl call with the same state, controller and
\* random draws returns the control the first call returned, whatever the
\* first call has left in lastCosts.
SameDrawsSameControl ==
    (controlReturned /\ calls = 2) => frame.control = firstControl

SameDrawsSameControlWitness ==
    /\ controlReturned
    /\ calls = 2
    /\ firstControl # ZeroControl
    /\ frame.control = firstControl
    /\ lastCosts # NoCosts
    /\ lastCosts.total > 0

\* fuel after a dynamics step that started with fuel before
fuelKept(before, after) ==
    /\ after # undefined => after >= 0
    /\ (before # undefined /\ after # undefined) => after <= before

\* C20: in every state a dynamics step produces, in the tick integrator and
\* in the rollouts of the controller, fuel is at least 0 and not greater than
\* the fuel of the preceding state.
FuelClampedAtZero ==
    [][/\ (pc = "rollout" /\ frame'.t = frame.t + 1) =>
              fuelKept(frame.testState.fuel, frame'.testState.fuel)
       /\ (pc' = "ticked" /\ pc # "ticked") =>
              fuelKept(gameState.fuel, gameState'.fuel)]_vars

\* the same for the tick integrator alone
FuelClampedByIntegrator ==
    [][(pc' = "ticked" /\ pc # "ticked") =>
              fuelKept(gameState.fuel, gameState'.fuel)]_vars

(***************************************************************************)
(* The cost functions on their own                                         *)
(***************************************************************************)
\* defaultDdpWeights, with an obstacle term that is switched on
DefaultController ==
    [gravity |-> M \div 10, thrustMax |-> 20 * M, torqueMax |-> 10 * M,
     targetPosition |-> Pt(300, 100), obstacles |-> <<Rect(100, 40, 20, 20)>>,
     canvasWidth |-> Arena.width, canvasHeight |-> Arena.height,
     velocityWeight |-> M, angularVelocityWeight |-> M \div 10,
     positionWeight |-> 15 * M, boundaryWeight |-> 9 * M,
     boundaryMargin |-> 50 * Q, obstacleWeight |-> 9 * M,
     obstacleMargin |-> 50 * Q, collisionCourseWeight |-> 25 * M,
     collisionTimeHorizon |-> 15 * M, shipRadius |-> LanderRadius * Q,
     waypointsDistanceWeight |-> M, waypointsVelocityWeight |-> M,
     waypoints |-> <<>>]

\* the controller with one weight, or both waypoints weights, set to 0
ZeroWeightControllers ==
    {[DefaultController EXCEPT !.positionWeight = 0],
     [DefaultController EXCEPT !.velocityWeight = 0],
     [DefaultController EXCEPT !.angularVelocityWeight = 0],
     [DefaultController EXCEPT !.obstacleWeight = 0],
     [DefaultController EXCEPT !.boundaryWeight = 0],
     [DefaultController EXCEPT !.collisionCourseWeight = 0],
     [DefaultController EXCEPT !.waypointsDistanceWeight = 0],
     [DefaultController EXCEPT !.waypointsVelocityWeight = 0],
     [DefaultController EXCEPT !.waypointsDistanceWeight = 0,
                               !.waypointsVelocityWeight = 0]}

\* straightWaypoints of the test, and a list with a zero-length segment
CostWaypoints ==
    {<<Pt(0, 100), Pt(100, 100), Pt(200, 100), Pt(300, 100)>>,
     <<Pt(100, 100), Pt(100, 100)>>}

CostControllers ==
    {[c EXCEPT !.waypoints = wps] :
        c \in {DefaultController} \cup ZeroWeightControllers,
        wps \in CostWaypoints}

CostPositions == {Pt(150, 120), Pt(400, 100), Pt(50, 50), Pt(30, 50)}

CostVelocities ==
    {[x |-> 0 - 10 * M, y |-> 0], [x |-> 10 * M, y |-> 0],
     [x |-> 0, y |-> 10 * M], [x |-> 0, y |-> 0 - 10 * M],
     [x |-> M, y |-> 0], [x |-> 3 * M, y |-> 4 * M]}

CostStates ==
    {[position |-> p, velocity |-> v, angle |-> 0, angularVelocity |-> 2 * M,
      thrust |-> 0, fuel |-> 1000 * M] : p \in CostPositions, v \in CostVelocities}

InitCost ==
    /\ pc = "cost"
    /\ controller \in CostControllers
    /\ gameState \in CostStates
    /\ lastCosts = NoCosts
    /\ frame = "none"
    /\ randoms = <<>>
    /\ calls = 0
    /\ firstControl = "none"
    /\ costReport = "none"
    /\ pairCosts = "none"
    /\ gameOff

\* DDPController.cost on the state
EvaluateCost ==
    /\ pc = "cost"
    /\ lastCosts' = cost(controller, gameState)
    /\ pc' = "costed"
    /\ UNCHANGED <<controller, gameState, frame, randoms, calls, firstControl,
                   costReport, pairCosts, gameVars>>

\* calculateTotalCost on the state, with the controller's configuration
CalculateTotalCost ==
    /\ pc = "costed"
    /\ costReport' = calculateTotalCost(gameState, controller.targetPosition,
                         controller.obstacles, controller.canvasWidth,
                         controller.canvasHeight, controller.waypoints, controller)
    /\ pc' = "reported"
    /\ UNCHANGED <<controller, lastCosts, gameState, frame, randoms, calls,
                   firstControl, pairCosts, gameVars>>

\* the position is off the path and has a nearest point on it
offPath(wps, pos) ==
    /\ Len(wps) >= 2
    /\ getShortestLineToPath(wps, pos).shortestDistance # Infinity
    /\ getShortestLineToPath(wps, pos).shortestDistance > 0

\* the velocity of the given speed that points at the nearest path point
towardPath(wps, pos, speed) ==
    LET q == getShortestLineToPath(wps, pos)
        d == real(q.shortestDistance)
    IN  [x |-> mulR(divR(real(q.crossSectionPoint.x - pos.x), d), speed),
         y |-> mulR(divR(real(q.crossSectionPoint.y - pos.y), d), speed)]

opposite(v) == [x |-> 0 - v.x, y |-> 0 - v.y]

\* the waypoints cost for the velocity toward the nearest path point and for
\* the opposite velocity, both of the speed of the state
CompareVelocities ==
    /\ pc = "reported"
    /\ pairCosts' =
           IF offPath(controller.waypoints, gameState.position)
           THEN LET speed == hypot(gameState.velocity.x, gameState.velocity.y)
                    toward == towardPath(controller.waypoints, gameState.position, speed)
                IN  [applies |-> TRUE,
                     toward |-> waypointsCost(controller, gameState.position, toward),
                     away |-> waypointsCost(controller, gameState.position,
                                            opposite(toward))]
           ELSE [applies |-> FALSE, toward |-> 0, away |-> 0]
    /\ pc' = "compared"
    /\ UNCHANGED <<controller, lastCosts, gameState, frame, randoms, calls,
                   firstControl, costReport, gameVars>>

NextCost ==
    \/ EvaluateCost
    \/ CalculateTotalCost
    \/ CompareVelocities

SpecCost == InitCost /\ [][NextCost]_vars

(***************************************************************************)
(* Claims about the cost of a state                                        *)
(***************************************************************************)
\* the seven components of a CostComponents value, added in the order of
\* the fields
addedUp(costs) ==
    plus(plus(plus(plus(plus(plus(costs.position, costs.velocity),
        costs.angularVelocity), costs.obstacle), costs.boundary),
        costs.collisionCourse), costs.waypoints)

\* C16: in every CostComponents value produced, by DDPController.cost (the
\* value getLastCosts reports) and by calculateTotalCost, total is position +
\* velocity + angularVelocity + obstacle + boundary + collisionCourse +
\* waypoints
TotalIsSumOfComponents ==
    /\ lastCosts.total = addedUp(lastCosts)
    /\ pc \in {"reported", "compared"} => costReport.total = addedUp(costReport)

TotalIsSumOfComponentsWitness ==
    /\ pc = "reported"
    /\ lastCosts.position > 0
    /\ lastCosts.collisionCourse > 0
    /\ lastCosts.boundary > 0
    /\ lastCosts.waypoints # 0
    /\ lastCosts.waypoints # NaN
    /\ lastCosts.waypoints # Infinity
    /\ costReport.waypoints = lastCosts.waypoints
    /\ costReport.total = lastCosts.total

\* the distance cost and the velocity cost in the waypoints cost of the state
waypointsParts ==
    waypointsCostParts(controller.waypoints, gameState.position,
        gameState.velocity, controller.waypointsDistanceWeight,
        controller.waypointsVelocityWeight)

\* the component of each weight that is 0 is 0; of the two waypoints
\* weights, each has its own part of the waypoints component
zeroWeightZeroComponent(costs) ==
    /\ controller.positionWeight = 0 => costs.position = 0
    /\ controller.velocityWeight = 0 => costs.velocity = 0
    /\ controller.angularVelocityWeight = 0 => costs.angularVelocity = 0
    /\ controller.obstacleWeight = 0 => costs.obstacle = 0
    /\ controller.boundaryWeight = 0 => costs.boundary = 0
    /\ controller.collisionCourseWeight = 0 => costs.collisionCourse = 0
    /\ controller.waypointsDistanceWeight = 0 => waypointsParts.distance = 0
    /\ controller.waypointsVelocityWeight = 0 => waypointsParts.velocity = 0
    /\ (controller.waypointsDistanceWeight = 0
            /\ controller.waypointsVelocityWeight = 0) => costs.waypoints = 0

\* the path has a segment of length 0
degeneratePath(wps) ==
    \E i \in 1..(Len(wps) - 1) : wps[i] = wps[i + 1]

\* C17: with a cost weight set to 0 the component of that weight is exactly 0
\* in every state (for the waypoints component: the distance cost with
\* waypointsDistanceWeight 0, the velocity cost with waypointsVelocityWeight
\* 0), and total is the sum of the remaining components
ZeroWeightNeutral ==
    pc \in {"reported", "compared"} =>
        /\ zeroWeightZeroComponent(lastCosts)
        /\ zeroWeightZeroComponent(costReport)
        /\ lastCosts.total = addedUp(lastCosts)
        /\ costReport.total = addedUp(costReport)

\* the same on the paths without a segment of length 0
ZeroWeightNeutralOnProperPath ==
    (pc \in {"reported", "compared"} /\ ~degeneratePath(controller.waypoints)) =>
        /\ zeroWeightZeroComponent(lastCosts)
        /\ zeroWeightZeroComponent(costReport)
        /\ lastCosts.total = addedUp(lastCosts)
        /\ costReport.total = addedUp(costReport)

\* the corners of the obstacle inflated by the ship radius
inflatedCorners(c, obstacle) ==
    {Pt(x, y) :
        x \in {obstacle.x - c.shipRadius,
               obstacle.x + obstacle.width + c.shipRadius},
        y \in {obstacle.y - c.shipRadius,
               obstacle.y + obstacle.height + c.shipRadius}}

\* the vehicle moves and every inflated obstacle lies behind it: each of its
\* corners is in the half plane opposite to the direction of travel, so the
\* forward ray from the position meets no edge
pointsAwayFromEveryObstacle(c, state) ==
    /\ hypot(state.velocity.x, state.velocity.y) >= M \div 10
    /\ \A i \in 1..Len(c.obstacles) :
           \A corner \in inflatedCorners(c, c.obstacles[i]) :
               (corner.x - state.position.x) * state.velocity.x
                   + (corner.y - state.position.y) * state.velocity.y < 0

\* C18: the collisionCourse cost is exactly 0 when the velocity points away
\* from every obstacle; an obstacle behind the vehicle contributes nothing
NoCollisionCourseWhenPointingAway ==
    (pc # "cost" /\ pointsAwayFromEveryObstacle(controller, gameState))
        => lastCosts.collisionCourse = 0

\* C19: for a path of at least 2 waypoints, an off-path position and a
\* speed, the waypoints cost of the velocity pointed toward the nearest path
\* point is strictly lower than that of the velocity pointed directly away
TowardPathCheaperThanAway ==
    (pc = "compared" /\ pairCosts.applies)
        => less(pairCosts.toward, pairCosts.away)

\* the nearest path point is strictly inside a segment, as in the test
nearestInsideSegment(wps, pos) ==
    /\ offPath(wps, pos)
    /\ \A i \in 1..Len(wps) :
           wps[i] # getShortestLineToPath(wps, pos).crossSectionPoint

\* the same where the nearest path point is inside a segment
TowardPathCheaperBesideSegment ==
    (pc = "compared" /\ nearestInsideSegment(controller.waypoints, gameState.position)
        /\ controller.waypointsVelocityWeight > 0)
        => less(pairCosts.toward, pairCosts.away)

(***************************************************************************)
(* The two integrators on fast states: GameLoop.updatePhysics and the      *)
(* forward simulation of computeControl, without its cost evaluation       *)
(***************************************************************************)
\* states at, just above and far above the bound of 1000 that
\* GameLoop.updatePhysics uses; 1000.32 and 1000.16 are what a tick leaves
\* of a clamped velocity under full thrust or torque
FastVelocities == {0, 32 * M, 1000 * M, (100032 * M) \div 100, 0 - 1500 * M}
FastAngularVelocities == {0, (100016 * M) \div 100, 0 - 2000 * M}

FastStates ==
    {[position |-> Pt(100, 150), velocity |-> [x |-> vx, y |-> vy], angle |-> 0,
      angularVelocity |-> w, thrust |-> 0, fuel |-> 1000 * M] :
        vx \in FastVelocities, vy \in {0, 1500 * M}, w \in FastAngularVelocities}

FastControls ==
    {ZeroControl, [thrust |-> 20 * M, torque |-> 10 * M],
     [thrust |-> 20 * M, torque |-> 0 - 10 * M]}

InitIntegrate ==
    /\ pc = "integrate"
    /\ controller = GameController
    /\ gameState \in FastStates
    /\ \E u \in FastControls :
          frame = [testState |-> gameState, testControl |-> u, t |-> 0]
    /\ lastCosts = NoCosts
    /\ randoms = <<>>
    /\ calls = 0
    /\ firstControl = "none"
    /\ costReport = "none"
    /\ pairCosts = "none"
    /\ gameOff

\* rrt.ts line 640: one step of the forward simulation
SimulationStep ==
    /\ pc = "integrate"
    /\ frame.t < horizon
    /\ frame' = [frame EXCEPT
                    !.testState = dynamics(controller, frame.testState, frame.testControl),
                    !.t = frame.t + 1]
    /\ UNCHANGED <<pc, controller, lastCosts, gameState, randoms, calls,
                   firstControl, costReport, pairCosts, gameVars>>

\* GameLoop.update line 70: a tick integrates the state; the next
\* computeControl starts from the state the tick left
IntegratorTick ==
    /\ pc = "integrate"
    /\ calls < horizon
    /\ calls' = calls + 1
    /\ gameState' = updatePhysics(gameState, frame.testControl, controller.gravity)
    /\ frame' = [frame EXCEPT !.testState = gameState', !.t = 0]
    /\ UNCHANGED <<pc, controller, lastCosts, randoms, firstControl,
                   costReport, pairCosts, gameVars>>

NextIntegrate ==
    \/ SimulationStep
    \/ IntegratorTick

SpecIntegrate == InitIntegrate /\ [][NextIntegrate]_vars

\* the step from before to after integrated the position and the angle of
\* before with its velocities clamped to [-1000, 1000]
integratedClamped(before, after) ==
    /\ after.position.x
           = before.position.x + counts(mulR(clampVelocity(before.velocity.x), dt))
    /\ after.position.y
           = before.position.y + counts(mulR(clampVelocity(before.velocity.y), dt))
    /\ after.angle
           = normalizeAngle(before.angle
                 + mulR(clampVelocity(before.angularVelocity), dt))

\* C21: every integration step, of the tick integrator and of the forward
\* simulation of the controller, integrates velocity.x, velocity.y and
\* angularVelocity clamped to [-1000, 1000]
ClampedBeforeIntegration ==
    [][/\ calls' = calls + 1 => integratedClamped(gameState, gameState')
       /\ (calls' = calls /\ frame'.t = frame.t + 1)
              => integratedClamped(frame.testState, frame'.testState)]_vars

\* the same of the tick integrator alone
TickClampedBeforeIntegration ==
    [][calls' = calls + 1 => integratedClamped(gameState, gameState')]_vars

QueryPaths ==
    {<<Pt(0, 0), Pt(10, 0), Pt(10, 10)>>,
     <<Pt(0, 0), Pt(10, 0), Pt(10, 10), Pt(0, 10)>>,
     <<Pt(0, 0), Pt(10, 10), Pt(20, 10)>>,
     <<Pt(0, 0), Pt(10, 0), Pt(0, 0), Pt(0, 10)>>,
     <<Pt(0, 0), Pt(0, 0)>>,
     <<Pt(10, 0), Pt(0, 0), Pt(0, 0), Pt(0, 10)>>}

\* query points; x + y is even, so that the projection on the diagonal
\* segment is a point of the grid
QueryPoints ==
    {Pt(1, 5), Pt(11, 0 - 1), Pt(5, 5), Pt(0 - 3, 3), Pt(12, 12), Pt(0, 0),
     Pt(10, 4), Pt(4, 0 - 2), Pt(20, 0), Pt(1, 1), Pt(7, 3), Pt(15, 11)}

InitQuery ==
    /\ pc = "query"
    /\ position \in QueryPoints
    /\ waypoints \in QueryPaths
    /\ target = Pt(0, 0)
    /\ lookaheadDistance = DefaultLookahead * Q
    /\ maxDistanceToPath = DefaultMaxDistanceToPath * Q
    /\ currentWaypointIndex = 0
    /\ obstacles = <<>>
    /\ tree = <<>>
    /\ iter = 0
    /\ rrtStart = Pt(0, 0)
    /\ rrtGoal = Pt(0, 0)
    /\ rrtResult = <<>>
    /\ planCaller = "none"
    /\ aim = NoAim
    /\ loopOff

CallGetShortestLineToPath ==
    /\ pc = "query"
    /\ shortestLine' = getShortestLineToPath(waypoints, position)
    /\ pc' = "queried"
    /\ UNCHANGED <<position, target, waypoints, currentWaypointIndex,
                   lookaheadDistance, maxDistanceToPath, obstacles, tree, iter,
                   rrtStart, rrtGoal, rrtResult, planCaller, aim, loopVars, held,
                   controller, lastCosts, gameState, frame, randoms, calls,
                   firstControl, costReport, pairCosts>>

\* the same path and position handed to getInterpolatedTarget
CallGetInterpolatedTargetOnQuery ==
    /\ pc = "queried"
    /\ aim' = getInterpolatedTarget(lookaheadDistance, position, waypoints, target)
    /\ pc' = "answered"
    /\ UNCHANGED <<position, target, waypoints, currentWaypointIndex,
                   lookaheadDistance, maxDistanceToPath, obstacles, tree, iter,
                   rrtStart, rrtGoal, rrtResult, planCaller, loopVars, held,
                   controlVars>>

NextQuery ==
    \/ CallGetShortestLineToPath
    \/ CallGetInterpolatedTargetOnQuery

SpecQuery == InitQuery /\ [][NextQuery]_vars

(***************************************************************************)
(* Claims about getShortestLineToPath                                      *)
(***************************************************************************)
\* the points of the grid on the segment from a to b, its ends included; a
\* segment of length 0 is the single point a
pointsOnSegment(a, b) ==
    {q \in [x : Min2(a.x, b.x)..Max2(a.x, b.x), y : Min2(a.y, b.y)..Max2(a.y, b.y)] :
        (b.x - a.x) * (q.y - a.y) = (b.y - a.y) * (q.x - a.x)}

squaredDistance(a, b) == (a.x - b.x) * (a.x - b.x) + (a.y - b.y) * (a.y - b.y)

\* the squared distance from p to segment i of the path
segmentDistance2(path, i, p) ==
    LET ds == {squaredDistance(q, p) : q \in pointsOnSegment(path[i], path[i + 1])}
    IN  CHOOSE d \in ds : \A e \in ds : d <= e

\* the earliest segment of the path at the least distance from p
nearestSegmentIndex(path, p) ==
    CHOOSE i \in 1..(Len(path) - 1) :
        /\ \A j \in 1..(Len(path) - 1) :
               segmentDistance2(path, i, p) <= segmentDistance2(path, j, p)
        /\ \A j \in 1..(i - 1) :
               segmentDistance2(path, i, p) < segmentDistance2(path, j, p)

\* the value is the least distance from p to a segment of the path, a point
\* of the earliest nearest segment that attains it, and that segment
isShortestLine(path, p, line) ==
    LET i == nearestSegmentIndex(path, p)
    IN  /\ line.shortestDistance = Sqrt(segmentDistance2(path, i, p))
        /\ line.segment = [start |-> path[i], end |-> path[i + 1]]
        /\ line.crossSectionPoint \in pointsOnSegment(path[i], path[i + 1])
        /\ squaredDistance(line.crossSectionPoint, p) = segmentDistance2(path, i, p)

\* C23: for a path of at least 2 points getShortestLineToPath returns the
\* least distance from the query point to a segment, the point that attains
\* it and the earliest segment that attains it; for the path (0,0), (10,0),
\* (10,10) the query (1,5) gives distance 5 and the point (1,0)
ShortestLineExact ==
    (pc # "query" /\ Len(waypoints) >= 2) =>
        /\ isShortestLine(waypoints, position, shortestLine)
        /\ (waypoints = <<Pt(0, 0), Pt(10, 0), Pt(10, 10)>> /\ position = Pt(1, 5))
               => /\ shortestLine.shortestDistance = 5 * Q
                  /\ shortestLine.crossSectionPoint = Pt(1, 0)

\* the same on the paths without a segment of length 0
ShortestLineExactOnProperPath ==
    (pc # "query" /\ Len(waypoints) >= 2 /\ ~degeneratePath(waypoints)) =>
        /\ isShortestLine(waypoints, position, shortestLine)
        /\ (waypoints = <<Pt(0, 0), Pt(10, 0), Pt(10, 10)>> /\ position = Pt(1, 5))
               => /\ shortestLine.shortestDistance = 5 * Q
                  /\ shortestLine.crossSectionPoint = Pt(1, 0)

\* the distance from p to the path, a segment of length 0 taken as a point
distanceToPath(path, p) ==
    Sqrt(segmentDistance2(path, nearestSegmentIndex(path, p), p))

\* the results for the path and position of the query are finite and those
\* of a path on which the segment of length 0 is a single point
finiteResults ==
    /\ shortestLine.shortestDistance # Infinity
    /\ shortestLine.crossSectionPoint # NoPoint
    /\ shortestLine.segment # NoSegment
    /\ shortestLine.shortestDistance = distanceToPath(waypoints, position)
    /\ ~aim.threw
    /\ aim.value # NoPoint
    /\ needsReplanning(maxDistanceToPath, position, waypoints)
           = (distanceToPath(waypoints, position) > maxDistanceToPath)
    /\ getWaypointsFollowingCost(waypoints, position, [x |-> M, y |-> 0], M, M)
           \notin {Infinity, NaN}

\* the path has a segment that is not of length 0
properSegment(wps) ==
    \E i \in 1..(Len(wps) - 1) : wps[i] # wps[i + 1]

\* C24: for a waypoint list with a segment of length 0 the shortest-line
\* query, getInterpolatedTarget, needsReplanning and the waypoints cost give
\* finite results, those of a list in which that segment is a single point
DegenerateSegmentFinite ==
    (pc = "answered" /\ degeneratePath(waypoints)) => finiteResults

\* the same for the lists that also have a segment of positive length
DegenerateSegmentFiniteAmongProper ==
    (pc = "answered" /\ degeneratePath(waypoints) /\ properSegment(waypoints))
        => finiteResults

(***************************************************************************)
(* RRTPathPlanner.simplifyPath on its own, one action per iteration of     *)
(* its while loop.  waypoints is the argument path, iter the index i       *)
(* (counted from 1) and rrtResult the array simplified                     *)
(***************************************************************************)
\* points of the paths: around the obstacles, and one outside the margins
SimplifyPoints == {Pt(30, 50), Pt(70, 50), Pt(50, 30), Pt(70, 30), Pt(10, 50)}

SimplifyPaths ==
    UNION {[1..n -> SimplifyPoints] : n \in 0..MaxPathLength}

InitSimplify ==
    /\ pc = "simplify"
    /\ obstacles \in ObstacleSets
    /\ waypoints \in SimplifyPaths
    /\ position = Pt(0, 0)
    /\ target = Pt(0, 0)
    /\ lookaheadDistance = DefaultLookahead * Q
    /\ maxDistanceToPath = DefaultMaxDistanceToPath * Q
    /\ currentWaypointIndex = 0
    /\ tree = <<>>
    /\ iter = 0
    /\ rrtStart = Pt(0, 0)
    /\ rrtGoal = Pt(0, 0)
    /\ rrtResult = <<>>
    /\ planCaller = "none"
    /\ aim = NoAim
    /\ loopOff

\* everything simplifyPath does not touch
simplifyFrame ==
    <<position, target, waypoints, currentWaypointIndex, lookaheadDistance,
      maxDistanceToPath, obstacles, tree, rrtStart, rrtGoal, planCaller, aim,
      loopVars, held, controlVars>>

\* lines 199-204
CallSimplifyPath ==
    /\ pc = "simplify"
    /\ IF Len(waypoints) <= 2
       THEN /\ rrtResult' = waypoints
            /\ iter' = iter
            /\ pc' = "simplified"
       ELSE /\ rrtResult' = <<waypoints[1]>>
            /\ iter' = 1
            /\ pc' = "simplifyLoop"
    /\ UNCHANGED simplifyFrame

\* lines 206-219: one iteration of the while loop
SimplifyIterate ==
    /\ pc = "simplifyLoop"
    /\ iter < Len(waypoints)
    /\ LET furthestVisible ==
               furthestVisibleScan(obstacles, waypoints, iter, Len(waypoints))
       IN  /\ rrtResult' = Append(rrtResult, waypoints[furthestVisible])
           /\ iter' = furthestVisible
    /\ UNCHANGED <<pc, simplifyFrame>>

\* line 221
SimplifyReturn ==
    /\ pc = "simplifyLoop"
    /\ iter >= Len(waypoints)
    /\ pc' = "simplified"
    /\ UNCHANGED <<iter, rrtResult, simplifyFrame>>

NextSimplify ==
    \/ CallSimplifyPath
    \/ SimplifyIterate
    \/ SimplifyReturn

SpecSimplify == InitSimplify /\ [][NextSimplify]_vars

(***************************************************************************)
(* Claims about simplifyPath                                               *)
(***************************************************************************)
\* r from its i-th point on is a subsequence of p from its j-th point on
RECURSIVE subsequenceFrom(_, _, _, _)
subsequenceFrom(r, i, p, j) ==
    IF i > Len(r) THEN TRUE
    ELSE IF j > Len(p) THEN FALSE
    ELSE IF r[i] = p[j] THEN subsequenceFrom(r, i + 1, p, j + 1)
    ELSE subsequenceFrom(r, i, p, j + 1)

\* r takes points of p in increasing index order, the first and the last
\* of p among them
keepsEnds(r, p) ==
    /\ Len(r) <= Len(p)
    /\ Len(p) > 0 => Len(r) > 0 /\ r[1] = p[1] /\ r[Len(r)] = p[Len(p)]
    /\ Len(p) > 1 => Len(r) > 1
    /\ Len(r) > 1 => subsequenceFrom(SubSeq(r, 2, Len(r) - 1), 1, SubSeq(p, 2, Len(p) - 1), 1)
    /\ Len(p) = 0 => r = <<>>

\* every consecutive pair of the path passes the collision test
collisionFree(obs, path) ==
    \A k \in 1..(Len(path) - 1) : ~collidesWith(obs, path[k], path[k + 1])

\* C25: simplifyPath terminates (each iteration of its loop moves i forward,
\* within the path) and returns points of its input in increasing index
\* order, from the first to the last, no more than the input has, and
\* every consecutive pair of them passes the collision test when every
\* consecutive pair of the input does
SimplifyPathSound ==
    /\ [](pc = "simplified" =>
            /\ keepsEnds(rrtResult, waypoints)
            /\ collisionFree(obstacles, waypoints) => collisionFree(obstacles, rrtResult))
    /\ [][pc = "simplifyLoop" /\ pc' = "simplifyLoop"
            => iter' > iter /\ iter' <= Len(waypoints)]_vars

SimplifyPathSoundWitness ==
    /\ pc = "simplified"
    /\ Len(waypoints) = 4
    /\ Len(rrtResult) = 3
    /\ obstacles # <<>>
    /\ collisionFree(obstacles, waypoints)
    /\ collidesWith(obstacles, waypoints[1], waypoints[4])

\* the loop computes what the operator simplifyPath of the planner model is
SimplifyLoopIsSimplifyPath ==
    pc = "simplified" => rrtResult = simplifyPath(obstacles, waypoints)

(***************************************************************************)
(* Claims about findPath from a start near the goal                        *)
(***************************************************************************)
\* the first iteration of a findPath call whose start is within the goal
\* threshold of the goal
firstIterationNearGoal ==
    /\ pc = "findPath"
    /\ iter = 0
    /\ iter' = 1
    /\ distance(rrtStart, rrtGoal) < GoalThreshold * Q

\* C26: when start is within goalThreshold of goal, findPath returns a path
\* of 1 or 2 points on its first iteration, whichever point is sampled
NearGoalReturnsAtOnce ==
    [][firstIterationNearGoal
          => pc' = "findPathReturned" /\ Len(rrtResult') \in {1, 2}]_vars

\* the same for the samples whose extension is free and ends within the
\* goal threshold
NearGoalReturnsWhenExtensionNear ==
    [][(firstIterationNearGoal /\ Len(tree') = 2
            /\ goalReached(tree'[2].position, rrtGoal))
          => pc' = "findPathReturned" /\ Len(rrtResult') \in {1, 2}]_vars

(***************************************************************************)
(* Claims about the tree of findPath                                       *)
(***************************************************************************)
\* the first node is the start, without parent, and the parent of every
\* other node is a node that was added before it
parentsPrecede ==
    /\ Len(tree) >= 1
    /\ tree[1] = [position |-> rrtStart, parent |-> 0]
    /\ \A k \in 2..Len(tree) : tree[k].parent \in 1..(k - 1)

\* the path reconstructed from node k begins at start, ends at the node and
\* visits no node twice
reconstructsFromStart(k) ==
    LET path == unshiftParents(tree, k, <<>>)
    IN  /\ Len(path) \in 1..k
        /\ path[1] = rrtStart
        /\ path[Len(path)] = tree[k].position

\* C27: at every point during findPath the nodes are a tree rooted at
\* start: every node but the root was created with a parent already in the
\* tree, nodes once added stay as they are, and the reconstruction from any
\* node is a finite sequence that begins at start
TreeRootedAtStart ==
    /\ [](pc \in {"findPath", "findPathReturned"} =>
            /\ parentsPrecede
            /\ \A k \in 1..Len(tree) : reconstructsFromStart(k))
    /\ [][(pc = "findPath" /\ Len(tree') > Len(tree)) =>
            /\ Len(tree') = Len(tree) + 1
            /\ SubSeq(tree', 1, Len(tree)) = tree
            /\ tree'[Len(tree')].parent \in 1..Len(tree)]_vars

\* a tree with a branch of three nodes below the root
TreeRootedAtStartWitness ==
    /\ pc \in {"findPath", "findPathReturned"}
    /\ Len(tree) = 4
    /\ tree[4].parent = 3
    /\ tree[3].parent = 2
    /\ Len(unshiftParents(tree, 4, <<>>)) = 4

(***************************************************************************)
(* Claims about the frame chains of GameLoop                               *)
(***************************************************************************)
\* C28: at most one animation-frame chain is live at any time, however
\* start() was invoked (by the renderer-ready callback and by
\* LunarLanderGame.start), so that a frame runs update at most once
AtMostOneChain == rafChains <= 1

\* every invocation of start() begins one chain, and nothing else does
OneChainPerStart ==
    rafChains <= (IF startTimer # "unset" THEN 1 ELSE 0)
                     + (IF rendererReady THEN 1 ELSE 0)

\* a frame arriving while the loop is paused and no step is pending
pausedFrame == pc = "idle" /\ isPaused /\ ~isStepMode

\* C29: a tick of a paused loop updates no waypoints, computes no control and
\* changes no state, and step() on a paused loop is followed by exactly one
\* updating tick, after which ticks are no-ops again until togglePause or
\* another step()
StepRunsOneUpdate ==
    /\ [](stepPending # "overrun")
    /\ [][pausedFrame => ~runsUpdateWaypoints]_vars

\* the half of C29 that the loop keeps: a paused frame changes nothing
PausedTickIsNoOp ==
    [][pausedFrame => (~runsUpdateWaypoints /\ gameState' = gameState
                          /\ waypoints' = waypoints /\ aim' = aim)]_vars

\* step() leaves the loop unpaused, whatever it was before
StepUnpauses == [][(isStepMode' /\ ~isStepMode) => ~isPaused']_vars

\* the shortest-line query of the call found a segment
segmentFound ==
    /\ interpolated
    /\ Len(waypoints) >= 2
    /\ interpQuery.shortestDistance < Infinity

\* C30: the index from which getInterpolatedTarget starts its forward walk is
\* the index of the segment that the shortest-line query returned, for every
\* waypoint list, also one in which a point occurs at several indices
WalkStartsAtOwningSegment ==
    segmentFound => findIndexOfStart(waypoints, interpQuery.segment) = owningSegment - 1

\* the forward walk starts at the owning segment when no point is repeated
WalkStartsAtOwningSegmentOnDistinct ==
    (segmentFound /\ distinctWaypoints)
        => findIndexOfStart(waypoints, interpQuery.segment) = owningSegment - 1

\* the index found never lies behind the owning segment
WalkStartsNoLaterThanOwningSegment ==
    segmentFound => findIndexOfStart(waypoints, interpQuery.segment) \in 0..(owningSegment - 1)

\* on the path that revisits its first point, from (0,20) on the last
\* segment, the query returns the segment from index 2 and the walk starts
\* at index 0
RevisitedStartWalkedFromFirstIndex ==
    (interpolated /\ waypoints = revisitingPath /\ position = Pt(0, 20))
        => (/\ owningSegment - 1 = 2
            /\ interpQuery.shortestDistance = 0
            /\ findIndexOfStart(waypoints, interpQuery.segment) = 0)

====
